---- MODULE Spec2Model ----
(***************************************************************************)
(* A model of the openclaw persistent memory index: the memory_search and  *)
(* memory_recall tools (scope resolution), PostgresMemoryIndexManager      *)
(* (search filters, sync coordinator, per-file indexer) and the Postgres   *)
(* store it writes through a connection pool.                              *)
(*                                                                         *)
(* Free-form strings (queries, session keys, actor ids) are sequences of   *)
(* symbols so that trim(), toLowerCase() and the \b word boundary are      *)
(* computed, not assumed.  Enumerated strings (roles, scopes, modes) are   *)
(* TLA+ strings.  None stands for JavaScript undefined / SQL NULL.         *)
(***************************************************************************)
EXTENDS Integers, Sequences, FiniteSets, TLC

\* undefined / NULL, one value per type so that TLC can compare it
None == "none"
NoStr == <<"undefined">>
NoNum == -1

\* ------------------------------------------------------------------ bounds
MaxQueryLen == 2
MaxRows == 2

\* ----------------------------------------------------------------- strings
Space == " "
EmptyStr == << >>
Human == <<"human">>
Agent == <<"agent">>

RECURSIVE TrimLeft(_)
TrimLeft(s) ==
  IF s = << >> THEN s
  ELSE IF Head(s) = Space THEN TrimLeft(Tail(s)) ELSE s

RECURSIVE TrimRight(_)
TrimRight(s) ==
  IF s = << >> THEN s
  ELSE IF s[Len(s)] = Space THEN TrimRight(SubSeq(s, 1, Len(s) - 1)) ELSE s

\* String.prototype.trim
Trim(s) == TrimRight(TrimLeft(s))

\* `value?.trim() || undefined`
TrimOrNone(s) == IF s = NoStr THEN NoStr ELSE IF Trim(s) = EmptyStr THEN NoStr ELSE Trim(s)

\* JavaScript truthiness of an optional string
Truthy(s) == s # NoStr /\ s # EmptyStr

LowerChar(c) == IF c = "W" THEN "w" ELSE IF c = "E" THEN "e" ELSE c

\* String.prototype.toLowerCase
ToLowerCase(s) == [i \in 1..Len(s) |-> LowerChar(s[i])]

\* \w of the regular expression: letters, digits and underscore
IsWordChar(c) == c \in {"w", "e", "x", "W", "E", "u", "s", "o", "r", "_"}

\* the query alphabet of the model and the queries drawn from it
QueryChars == {"W", "e", Space}

RECURSIVE SeqsUpTo(_, _)
SeqsUpTo(S, n) ==
  IF n = 0 THEN {<< >>}
  ELSE LET shorter == SeqsUpTo(S, n - 1)
       IN shorter \cup {Append(s, c) : s \in {t \in shorter : Len(t) = n - 1}, c \in S}

Queries == SeqsUpTo(QueryChars, MaxQueryLen)

\* ------------------------------------------------------- memory_search tool
\* the token list of isSharedContextQuery, each token a sequence of letters
SharedTokens ==
  { <<"w","e">>, <<"o","u","r">>, <<"u","s">>, <<"t","e","a","m">>,
    <<"g","r","o","u","p">>, <<"e","v","e","r","y","o","n","e">>,
    <<"a","n","y","o","n","e">>, <<"a","l","l">>,
    <<"c","h","a","n","n","e","l">>, <<"s","e","r","v","e","r">>,
    <<"t","h","r","e","a","d">>, <<"g","u","i","l","d">>, <<"r","o","o","m">>,
    <<"t","o","g","e","t","h","e","r">>, <<"o","t","h","e","r","s">>,
    <<"p","e","o","p","l","e">> }

\* /\btoken\b/ matches s at position i (1-based start of the token)
TokenAt(s, token, i) ==
  /\ i + Len(token) - 1 <= Len(s)
  /\ SubSeq(s, i, i + Len(token) - 1) = token
  /\ (i = 1 \/ ~IsWordChar(s[i - 1]))
  /\ (i + Len(token) > Len(s) \/ ~IsWordChar(s[i + Len(token)]))

isSharedContextQuery(query) ==
  LET lower == ToLowerCase(query)
  IN \E token \in SharedTokens : \E i \in 1..Len(lower) : TokenAt(lower, token, i)

\* session keys and actor ids of the model
K1 == <<"k1">>
K2 == <<"k2">>
U1 == <<"u1">>
U2 == <<"u2">>
TgU1 == <<"tg", ":", "u1">>
Padded(s) == <<Space>> \o s \o <<Space>>

\* rawUserId.includes(":")
HasColon(s) == \E i \in 1..Len(s) : s[i] = ":"

\* `${channel}:${rawUserId}`
WithChannel(channel, raw) == channel \o <<":">> \o raw

\* a || b || c over optional strings that are trimmed first
FirstTruthy(a, b, c) ==
  IF TrimOrNone(a) # NoStr THEN TrimOrNone(a)
  ELSE IF TrimOrNone(b) # NoStr THEN TrimOrNone(b)
  ELSE TrimOrNone(c)

\* channel-qualified user id shared by resolveActorContext and
\* buildSessionIdentityMap
QualifiedUserId(entry) ==
  LET channel == FirstTruthy(entry.originProvider, entry.channel, entry.lastChannel)
      rawUserId == FirstTruthy(entry.originFrom, entry.deliveryTo, entry.lastTo)
  IN IF channel # NoStr /\ rawUserId # NoStr /\ ~HasColon(rawUserId)
     THEN WithChannel(channel, rawUserId)
     ELSE rawUserId

NoEntry == [absent |-> TRUE]

MkEntry(provider, chan, from, to, chat) ==
  [originProvider |-> provider, channel |-> chan, lastChannel |-> NoStr,
   originFrom |-> from, deliveryTo |-> to, lastTo |-> NoStr, chatType |-> chat]

\* the entries the session store may hold under K1
SessionEntries ==
  { MkEntry(<<"tg">>, NoStr, U1, NoStr, "direct"),
    MkEntry(NoStr, <<"tg">>, NoStr, Padded(U1), "group"),
    MkEntry(NoStr, NoStr, TgU1, NoStr, "channel"),
    MkEntry(<<"tg">>, NoStr, U1, NoStr, None),
    MkEntry(<<"tg">>, NoStr, NoStr, NoStr, "direct"),
    MkEntry(NoStr, NoStr, NoStr, NoStr, None) }

\* loadSessionStore(storePath)[sessionKey]: the store holds one entry, under K1
StoreLookup(store, key) == IF key = K1 THEN store ELSE NoEntry

resolveActorContext(agentSessionKey, store) ==
  LET sessionKey == TrimOrNone(agentSessionKey)
      empty == [actorId |-> NoStr, actorType |-> NoStr, chatType |-> None]
  IN IF sessionKey = NoStr THEN empty
     ELSE LET entry == StoreLookup(store, sessionKey)
          IN IF entry = NoEntry THEN empty
             ELSE LET actorId == QualifiedUserId(entry)
                  IN [actorId |-> IF Truthy(actorId) THEN actorId ELSE NoStr,
                      actorType |-> IF Truthy(actorId) THEN Human ELSE NoStr,
                      chatType |-> entry.chatType]

\* actorContext.chatType && actorContext.chatType !== "direct"
IsGroupChat(actorContext) ==
  actorContext.chatType # None /\ actorContext.chatType # "direct"

\* the options memory_search hands to manager.search
MemorySearchOpts_NoGroupCheck(agentSessionKey, store, p) ==
  LET actorContext == resolveActorContext(agentSessionKey, store)
      sharedContext == isSharedContextQuery(p.query)
      autoActorScope ==
        /\ p.sessionScope = None /\ p.actorId = NoStr /\ p.actorType = NoStr
        /\ actorContext.actorId # NoStr
        /\ ~sharedContext
  IN [sessionKey |-> agentSessionKey,
      sessionScope |-> IF p.sessionScope # None THEN p.sessionScope
                       ELSE IF autoActorScope THEN "actor"
                       ELSE IF sharedContext THEN "global" ELSE "session",
      actorId |-> IF p.actorId # NoStr THEN p.actorId
                  ELSE IF autoActorScope THEN actorContext.actorId ELSE NoStr,
      actorType |-> IF p.actorType # NoStr THEN p.actorType
                    ELSE IF autoActorScope THEN actorContext.actorType ELSE NoStr,
      updatedAfter |-> NoNum]

MemorySearchOpts(agentSessionKey, store, p) ==
  LET actorContext == resolveActorContext(agentSessionKey, store)
      sharedContext == isSharedContextQuery(p.query)
      isGroupChat == IsGroupChat(actorContext)
      autoActorScope ==
        /\ p.sessionScope = None /\ p.actorId = NoStr /\ p.actorType = NoStr
        /\ actorContext.actorId # NoStr
        /\ ~isGroupChat
        /\ ~sharedContext
  IN [sessionKey |-> agentSessionKey,
      sessionScope |-> IF p.sessionScope # None THEN p.sessionScope
                       ELSE IF autoActorScope THEN "actor"
                       ELSE IF sharedContext /\ ~isGroupChat THEN "global"
                       ELSE "session",
      actorId |-> IF p.actorId # NoStr THEN p.actorId
                  ELSE IF autoActorScope THEN actorContext.actorId ELSE NoStr,
      actorType |-> IF p.actorType # NoStr THEN p.actorType
                    ELSE IF autoActorScope THEN actorContext.actorType ELSE NoStr,
      updatedAfter |-> NoNum]

\* Date.now() of the model and the hours a recall may ask for
Now == 100
RecallHours == {NoNum, 0, 24}

\* the options memory_recall hands to manager.search
MemoryRecallOpts(agentSessionKey, store, p) ==
  LET actorContext == resolveActorContext(agentSessionKey, store)
  IN [sessionKey |-> agentSessionKey,
      sessionScope |-> IF p.sessionScope # None THEN p.sessionScope
                       ELSE IF actorContext.actorId # NoStr THEN "actor" ELSE "session",
      actorId |-> IF p.actorId # NoStr THEN p.actorId ELSE actorContext.actorId,
      actorType |-> IF p.actorType # NoStr THEN p.actorType ELSE actorContext.actorType,
      updatedAfter |-> IF p.timeWindowHours # NoNum /\ p.timeWindowHours > 0
                       THEN Now - p.timeWindowHours ELSE NoNum]

\* tool parameters after readStringParam / readNumberParam
ToolParams ==
  [query : Queries,
   sessionScope : {None, "session", "actor", "global"},
   actorId : {NoStr, U2},
   actorType : {NoStr, Human},
   timeWindowHours : RecallHours]

AgentSessionKeys == {NoStr, K1, Padded(K1), K2}

\* ------------------------------------------------------- the chunk store
\* `agent:${this.agentId}`, and the user id of a session without identity
AgentActor == <<"agent", ":", "main">>
UnknownUser == <<"unknown">>
RoleUser == <<"user">>
RoleAssistant == <<"assistant">>
RoleSystem == <<"system">>

\* a memory_chunks row as indexEntry writes it for a memory file
MemoryChunkRow(path, line, text, model, createdAt) ==
  [id |-> <<path, line, text>>, path |-> path, source |-> "memory",
   session_key |-> NoStr, message_id |-> NoStr, role |-> RoleSystem,
   actor_type |-> Agent, actor_id |-> AgentActor,
   text |-> text, model |-> model, created_at |-> createdAt]

\* a memory_chunks row as indexEntry writes it for one session message
SessionChunkRow(path, line, sessionKey, userId, role, text, model, createdAt) ==
  [id |-> <<path, line, text>>, path |-> path, source |-> "sessions",
   session_key |-> sessionKey, message_id |-> <<path, line>>, role |-> role,
   actor_type |-> IF role = RoleUser THEN Human ELSE Agent,
   actor_id |-> IF role = RoleUser
                THEN (IF userId = NoStr THEN UnknownUser ELSE userId)
                ELSE AgentActor,
   text |-> text, model |-> model, created_at |-> createdAt]

\* ts_rank_cd of a chunk text for the query, in percent; 0: no @@ match
TextRank(text) ==
  CASE text = "alpha" -> 60
    [] text = "beta" -> 0
    [] text = "gamma" -> 20
    [] OTHER -> 40

\* 1 - cosine distance of a chunk text to the query vector, in percent
VectorScore(text) ==
  CASE text = "alpha" -> 40
    [] text = "beta" -> 90
    [] text = "gamma" -> 30
    [] OTHER -> 50

\* col = $n in SQL: never true on NULL
SqlEq(col, value) == col # NoStr /\ col = value

\* buildSearchFilters without the session-scope fragment
buildSearchFilters_NoSessionFragment(f, row) ==
  LET actorId == IF f.actorId = NoStr THEN NoStr ELSE Trim(f.actorId)
      actorType == IF f.actorType = NoStr THEN NoStr ELSE Trim(f.actorType)
      role == IF f.role = NoStr THEN NoStr ELSE Trim(f.role)
      scope == IF f.sessionScope = None THEN "session" ELSE f.sessionScope
      actorClauses ==
        /\ Truthy(actorId) => SqlEq(row.actor_id, actorId)
        /\ Truthy(actorType) => SqlEq(row.actor_type, actorType)
  IN /\ IF scope = "actor" /\ (Truthy(actorId) \/ Truthy(actorType))
        THEN row.source # "sessions" \/ actorClauses
        ELSE actorClauses
     /\ Truthy(role) => SqlEq(row.role, role)
     /\ f.updatedAfter # NoNum => row.created_at >= f.updatedAfter
     /\ f.updatedBefore # NoNum => row.created_at <= f.updatedBefore

\* buildSearchFilters: does the WHERE fragment accept the row
buildSearchFilters(f, row) ==
  LET scope == IF f.sessionScope = None THEN "session" ELSE f.sessionScope
      actorId == IF f.actorId = NoStr THEN NoStr ELSE Trim(f.actorId)
      actorType == IF f.actorType = NoStr THEN NoStr ELSE Trim(f.actorType)
      role == IF f.role = NoStr THEN NoStr ELSE Trim(f.role)
      actorClauses ==
        /\ Truthy(actorId) => SqlEq(row.actor_id, actorId)
        /\ Truthy(actorType) => SqlEq(row.actor_type, actorType)
  IN /\ (scope = "session" /\ Truthy(f.sessionKey)) =>
          (row.source = "sessions" /\ SqlEq(row.session_key, f.sessionKey))
     /\ IF scope = "actor" /\ (Truthy(actorId) \/ Truthy(actorType))
        THEN row.source # "sessions" \/ actorClauses
        ELSE actorClauses
     /\ Truthy(role) => SqlEq(row.role, role)
     /\ f.updatedAfter # NoNum => row.created_at >= f.updatedAfter
     /\ f.updatedBefore # NoNum => row.created_at <= f.updatedBefore

RECURSIVE SortedSeqs(_)
\* ORDER BY key DESC over a set of [key, val] pairs: every order the
\* database may return, rows of equal key in any order
SortedSeqs(S) ==
  IF S = {} THEN { << >> }
  ELSE UNION { { <<x.val>> \o q : q \in SortedSeqs(S \ {x}) } :
               x \in { y \in S : \A z \in S : y.key >= z.key } }

Min(a, b) == IF a < b THEN a ELSE b
Max(a, b) == IF a > b THEN a ELSE b

\* LIMIT n
Limit(q, n) == SubSeq(q, 1, Min(Len(q), Max(n, 0)))

\* a slice that keeps the whole array
Slice0_All(q, n) == q

\* Array.prototype.slice(0, n)
Slice0(q, n) == SubSeq(q, 1, IF n >= 0 THEN Min(Len(q), n) ELSE Max(Len(q) + n, 0))

RECURSIVE SelectScore(_, _)
\* Array.prototype.filter(entry => entry.score >= minScore)
SelectScore(q, minScore) ==
  IF q = << >> THEN << >>
  ELSE IF Head(q).score >= minScore
       THEN <<Head(q)>> \o SelectScore(Tail(q), minScore)
       ELSE SelectScore(Tail(q), minScore)

\* rows the fixed part of both WHERE clauses accepts
Searchable(rows, settings, f) ==
  { r \in rows : /\ r.model = settings.model
                 /\ r.source \in settings.sources
                 /\ buildSearchFilters(f, r) }

\* searchKeyword: the result lists the full-text query may return
searchKeyword(rows, settings, limit, f) ==
  IF limit <= 0 THEN { << >> }
  ELSE LET hits == { r \in Searchable(rows, settings, f) : TextRank(r.text) > 0 }
       IN { Limit([i \in DOMAIN q |->
                     [id |-> q[i].id, path |-> q[i].path, source |-> q[i].source,
                      score |-> TextRank(q[i].text),
                      textScore |-> TextRank(q[i].text)]], limit) :
            q \in SortedSeqs({ [key |-> TextRank(r.text), val |-> r] : r \in hits }) }

\* searchVector: the result lists the pgvector query may return
searchVector(rows, settings, limit, f) ==
  { Limit([i \in DOMAIN q |->
             [id |-> q[i].id, path |-> q[i].path, source |-> q[i].source,
              score |-> VectorScore(q[i].text)]], limit) :
    q \in SortedSeqs({ [key |-> VectorScore(r.text), val |-> r] :
                        r \in Searchable(rows, settings, f) }) }

\* mergeHybridResults (hybrid.js): one entry per chunk id seen in either
\* list, score = vectorWeight * v + textWeight * t with a missing score
\* taken as 0, sorted by score, then vector score, then text score
mergeHybridResults(vector, keyword, vectorWeight, textWeight) ==
  LET Entries(q) == { q[i] : i \in DOMAIN q }
      ids == { e.id : e \in Entries(vector) \cup Entries(keyword) }
      Of(q, id) == CHOOSE e \in Entries(q) : e.id = id
      Has(q, id) == \E e \in Entries(q) : e.id = id
      merged ==
        { [id |-> id,
           path |-> IF Has(vector, id) THEN Of(vector, id).path ELSE Of(keyword, id).path,
           source |-> IF Has(vector, id) THEN Of(vector, id).source
                      ELSE Of(keyword, id).source,
           vectorScore |-> IF Has(vector, id) THEN Of(vector, id).score ELSE 0,
           textScore |-> IF Has(keyword, id) THEN Of(keyword, id).textScore ELSE 0,
           score |-> ( vectorWeight * (IF Has(vector, id) THEN Of(vector, id).score ELSE 0)
                     + textWeight * (IF Has(keyword, id) THEN Of(keyword, id).textScore ELSE 0) )
                     \div 100] : id \in ids }
  IN SortedSeqs({ [key |-> (e.score * 1000 + e.vectorScore) * 1000 + e.textScore,
                    val |-> e] : e \in merged })

\* the filters search() hands to both queries
SearchFilters(opts) ==
  [sessionKey |-> TrimOrNone(opts.sessionKey),
   sessionScope |-> IF opts.sessionScope = None THEN "session" ELSE opts.sessionScope,
   actorId |-> TrimOrNone(opts.actorId),
   actorType |-> TrimOrNone(opts.actorType),
   role |-> TrimOrNone(opts.role),
   updatedAfter |-> opts.updatedAfter,
   updatedBefore |-> opts.updatedBefore]

Returned(results) == [status |-> "returned", results |-> results]
Threw == [status |-> "threw", results |-> << >>]

\* search(query, opts) after the sync kick-off: every outcome the call may
\* have on the rows the store shows; embed is what provider.embedQuery does
search(rows, settings, query, opts, embed) ==
  LET cleaned == Trim(query)
      minScore == IF opts.minScore # NoNum THEN opts.minScore ELSE settings.minScore
      maxResults == IF opts.maxResults # NoNum THEN opts.maxResults
                    ELSE settings.maxResults
      mode == IF opts.mode # None THEN opts.mode
              ELSE IF settings.hybridEnabled THEN "hybrid" ELSE "vector"
      candidates == Min(200, Max(1, maxResults * settings.candidateMultiplier))
      f == SearchFilters(opts)
      keywordLists == IF mode # "vector" /\ settings.hybridEnabled
                      THEN searchKeyword(rows, settings, candidates, f)
                      ELSE { << >> }
      vectorLists == IF mode # "keyword" /\ embed = "vector"
                     THEN searchVector(rows, settings, candidates, f)
                     ELSE { << >> }
  IN IF cleaned = EmptyStr THEN { Returned(<< >>) }
     ELSE IF mode # "keyword" /\ embed = "throws" THEN { Threw }
     ELSE IF mode = "keyword"
     THEN { Returned(Slice0(SelectScore(k, minScore), maxResults)) : k \in keywordLists }
     ELSE IF mode = "vector" \/ ~settings.hybridEnabled
     THEN { Returned(Slice0(SelectScore(v, minScore), maxResults)) : v \in vectorLists }
     ELSE UNION { UNION { { Returned(Slice0(SelectScore(m, minScore), maxResults)) :
                            m \in mergeHybridResults(v, k, settings.vectorWeight,
                                                     settings.textWeight) } :
                          k \in keywordLists } : v \in vectorLists }

\* ------------------------------------------ configuration and file system
\* most environment changes (file edits, manager restarts) in one behaviour
MaxChanges == 1
\* most sync() callers awaiting the in-flight promise at once
MaxWaiters == 2
\* most search() calls in one behaviour
MaxSearches == 1

\* the ResolvedMemorySearchConfig of a manager with its provider identity
BaseSettings ==
  [provider |-> "openai", model |-> "embed-small", providerKey |-> "key-a",
   chunkTokens |-> 400, chunkOverlap |-> 80,
   sources |-> {"memory", "sessions"}, sessionMemory |-> TRUE,
   cacheEnabled |-> TRUE, hybridEnabled |-> TRUE, candidateMultiplier |-> 4,
   vectorWeight |-> 70, textWeight |-> 30, minScore |-> 35, maxResults |-> 2,
   onSearch |-> TRUE, onSessionStart |-> FALSE]

\* the settings a manager may be constructed with: the base configuration,
\* the cache switched off, and one change of each field that Meta records
ManagerSettings ==
  { BaseSettings,
    [BaseSettings EXCEPT !.cacheEnabled = FALSE],
    [BaseSettings EXCEPT !.model = "embed-large"],
    [BaseSettings EXCEPT !.provider = "local"],
    [BaseSettings EXCEPT !.providerKey = "key-b"],
    [BaseSettings EXCEPT !.chunkTokens = 200],
    [BaseSettings EXCEPT !.chunkOverlap = 40] }

\* length of the vectors the provider returns
ProviderDims == 3

MemoryPaths == {"MEMORY.md", "memory/a.md"}
SessionPaths == {"sessions/s1.jsonl"}
Paths == MemoryPaths \cup SessionPaths

\* a file's content is the sequence of its paragraphs (memory file) or of
\* its message texts (transcript); AbsentFile: the path does not exist
AbsentFile == <<"(absent)">>
Contents == { << >>, <<"alpha">>, <<"alpha", "beta">>, <<"gamma">> }

\* mtime of the files and timestamp of the messages
FileTime == 50

\* hashText (internal.js): SHA-256, taken to be collision free
hashText(content) == <<"sha256", content>>

\* chunkMarkdown (internal.js): one chunk per paragraph, none for no text
chunkMarkdown(content) ==
  [i \in DOMAIN content |-> [startLine |-> i, text |-> content[i],
                              hash |-> hashText(<<content[i]>>)]]

\* the role of the i-th message of a transcript: user and assistant in turn
MessageRole(i) == IF i % 2 = 1 THEN RoleUser ELSE RoleAssistant

\* buildSessionIdentityMap: the identities the session store gives for the
\* transcript files; a transcript without a store entry is not in the map
VARIABLES
  identityMap   \* per transcript: its identity in the session store

NoIdentity == [sessionKey |-> NoStr, userId |-> NoStr]
KnownIdentities ==
  [p \in SessionPaths |-> [sessionKey |-> K1, userId |-> WithChannel(<<"tg">>, U1)]]
UnknownIdentities == [p \in SessionPaths |-> NoIdentity]

\* identityMap.get(file)
SessionIdentity(path) == identityMap[path]

SourceOf(path) == IF path \in SessionPaths THEN "sessions" ELSE "memory"

MemoryPathSeq == <<"MEMORY.md", "memory/a.md">>
SessionPathSeq == <<"sessions/s1.jsonl">>

\* listMemoryFiles + buildFileEntry, listSessionFiles + buildSessionEntry:
\* the entries of the files that exist, in directory order
RECURSIVE EntriesOf(_, _)
EntriesOf(fsys, pathSeq) ==
  IF pathSeq = << >> THEN << >>
  ELSE (IF fsys[Head(pathSeq)] = AbsentFile THEN << >>
        ELSE << [path |-> Head(pathSeq), hash |-> hashText(fsys[Head(pathSeq)]),
                 content |-> fsys[Head(pathSeq)]] >>)
       \o EntriesOf(fsys, Tail(pathSeq))

\* ------------------------------------------------- the store and the pool
\* the two clients of the pg Pool
Clients == {1, 2}

NoMeta == [absent |-> TRUE]
EmptyDb == [meta |-> NoMeta, files |-> {}, chunks |-> {}, cache |-> {}, actors |-> {}]
NoTxn == [state |-> "none", ops |-> << >>]

\* the effect of one SQL statement on the tables
ApplyOp(d, op) ==
  CASE op.sql = "upsertFile" ->
         [d EXCEPT !.files = {r \in @ : r.path # op.row.path} \cup {op.row}]
    [] op.sql = "deleteFile" ->
         [d EXCEPT !.files = {r \in @ : ~(r.path = op.path /\ r.source = op.source)}]
    [] op.sql = "deleteChunks" ->
         [d EXCEPT !.chunks = {r \in @ : ~(r.path = op.path /\ r.source = op.source)}]
    [] op.sql = "insertChunks" -> [d EXCEPT !.chunks = @ \cup op.rows]
    [] op.sql = "upsertCache" -> [d EXCEPT !.cache = @ \cup op.rows]
    [] op.sql = "upsertActors" -> [d EXCEPT !.actors = @ \cup op.rows]
    [] op.sql = "writeMeta" -> [d EXCEPT !.meta = op.meta]
    [] op.sql = "clearFiles" -> [d EXCEPT !.files = {}]
    [] op.sql = "clearChunks" -> [d EXCEPT !.chunks = {}]
    [] op.sql = "clearCache" -> [d EXCEPT !.cache = {}]

RECURSIVE ApplyOps(_, _)
ApplyOps(d, ops) ==
  IF ops = << >> THEN d ELSE ApplyOps(ApplyOp(d, Head(ops)), Tail(ops))

\* what a statement on client c reads: the committed rows and the writes
\* of the transaction open on c
View(d, tx, c) == ApplyOps(d, tx[c].ops)

\* pool.query(text): the pool hands out the client released last
PoolClient(idleClients) == idleClients[Len(idleClients)]

\* a statement on a client whose transaction has failed is refused
Refused(tx, c) == tx[c].state = "aborted"

\* pool.query of data statements on client c: applied at once, or kept in
\* the transaction that is open on c
RECURSIVE Buffered(_, _)
\* the statements kept by a transaction; a statement repeated right after
\* itself has the effect of one
Buffered(kept, ops) ==
  IF ops = << >> THEN kept
  ELSE IF /\ kept # << >>
          /\ kept[Len(kept)].sql = Head(ops).sql
          /\ kept[Len(kept)] = Head(ops)
       THEN Buffered(kept, Tail(ops))
       ELSE Buffered(Append(kept, Head(ops)), Tail(ops))

Exec(d, tx, c, ops) ==
  IF tx[c].state = "open"
  THEN [db |-> d, txn |-> [tx EXCEPT ![c].ops = Buffered(@, ops)]]
  ELSE [db |-> ApplyOps(d, ops), txn |-> tx]

\* a statement that fails on client c: an open transaction is aborted
ExecFailed(d, tx, c) ==
  [db |-> d,
   txn |-> IF tx[c].state = "open"
           THEN [tx EXCEPT ![c] = [state |-> "aborted", ops |-> << >>]]
           ELSE tx]

\* pool.query("BEGIN") on client c; inside a transaction only a warning
ExecBegin(d, tx, c) ==
  [db |-> d, txn |-> [tx EXCEPT ![c].state = "open"]]

\* pool.query("COMMIT") on client c: without a transaction only a warning,
\* in a failed transaction a rollback
ExecCommit(d, tx, c) ==
  [db |-> ApplyOps(d, tx[c].ops), txn |-> [tx EXCEPT ![c] = NoTxn]]

\* pool.query("ROLLBACK") on client c
ExecRollback(d, tx, c) ==
  [db |-> d, txn |-> [tx EXCEPT ![c] = NoTxn]]

\* ------------------------------------------------------ the indexer's data
\* the MemoryIndexMeta a manager with these settings writes
BaseMeta(s, dims) ==
  [model |-> s.model, provider |-> s.provider, providerKey |-> s.providerKey,
   chunkTokens |-> s.chunkTokens, chunkOverlap |-> s.chunkOverlap,
   vectorDims |-> dims]

\* runSync: needsFullReindex, with this.vectorDims already taken from Meta
needsFullReindex(meta, s) ==
  \/ meta = NoMeta
  \/ meta.model # s.model
  \/ meta.provider # s.provider
  \/ meta.providerKey # s.providerKey
  \/ meta.chunkTokens # s.chunkTokens
  \/ meta.chunkOverlap # s.chunkOverlap

\* the memory_files row indexEntry upserts
FileRow(entry, source) ==
  [path |-> entry.path, source |-> source, hash |-> entry.hash]

\* indexEntry: the chunks of an entry, each with the row it would insert
EntryChunks(entry, source, s) ==
  LET cs == chunkMarkdown(entry.content)
      id == SessionIdentity(entry.path)
  IN [i \in DOMAIN cs |->
        [hash |-> cs[i].hash,
         row |-> IF source = "sessions"
                 THEN SessionChunkRow(entry.path, i, id.sessionKey, id.userId,
                                      MessageRole(i), cs[i].text, s.model, FileTime)
                 ELSE MemoryChunkRow(entry.path, i, cs[i].text, s.model, FileTime)]]

\* the hashes of a chunk list in order of first appearance
RECURSIVE UniqueHashes(_, _)
UniqueHashes(cs, seen) ==
  IF cs = << >> THEN << >>
  ELSE IF Head(cs).hash \in seen THEN UniqueHashes(Tail(cs), seen)
       ELSE <<Head(cs).hash>> \o UniqueHashes(Tail(cs), seen \cup {Head(cs).hash})

CacheRow(s, hash) ==
  [provider |-> s.provider, model |-> s.model, providerKey |-> s.providerKey,
   hash |-> hash]

\* what provider.embedBatch may do with n texts
EmbedOutcomes == {"ok", "throws", "short", "empty"}

\* provider.embedBatch(texts): how many vectors come back, in text order
VectorsReturned(outcome, n) == IF outcome = "short" THEN n - 1 ELSE n

\* syncEntries: the entries whose stored hash differs from the file's
RECURSIVE ChangedEntries(_, _)
ChangedEntries(entries, existing) ==
  IF entries = << >> THEN << >>
  ELSE (IF \E r \in existing : r.path = Head(entries).path /\ r.hash = Head(entries).hash
        THEN << >> ELSE <<Head(entries)>>)
       \o ChangedEntries(Tail(entries), existing)

SeqRange(q) == { q[i] : i \in DOMAIN q }

VARIABLES
  agentSessionKey,  \* options.agentSessionKey of the tools
  sessionStore,     \* the session store entry kept under K1, or NoEntry
  toolCall          \* the last tool execution: tool, params, options handed on

toolVars == <<agentSessionKey, sessionStore, toolCall>>

NoCall == [tool |-> None]

\* ------------------------------------------------------------ the manager
VARIABLES
  settings,     \* this.settings with the provider identity
  fs,           \* the workspace memory files and the session transcripts
  changes,      \* file edits and restarts so far
  db,           \* the committed rows of the store
  txn,          \* per client: the transaction open on it
  idle,         \* the pool's idle clients, the one released last at the end
  syncing,      \* this.syncing holds a promise
  active,       \* executions of runSync that have not settled
  callers,      \* the callers of sync(): what their await has given them
  dirty,        \* this.dirty
  vectorDims,   \* this.vectorDims
  lastCounts,   \* this.lastCounts
  run,          \* the position of runSync and its local variables
  searchCall,   \* the search() in progress: options, outcome, client held
  searches,     \* search() calls so far
  lastOk,       \* the last run completed without error and nothing changed since
  sessionWarm,  \* this.sessionWarm, each key with the time its timer fires
  clock,        \* Date.now(), in ms since the manager was constructed
  warmCall,     \* the last warmSession call: session, key passed, sync started
  windowStart   \* per session: the first warm-up call of its current 60 s

envVars == <<settings, fs, changes, identityMap>>
storeVars == <<db, txn, idle>>
coordVars == <<syncing, active, callers>>
mgrVars == <<dirty, vectorDims, lastCounts>>
warmVars == <<sessionWarm, clock, warmCall, windowStart>>
managerVars ==
  <<envVars, storeVars, coordVars, mgrVars, run, searchCall, searches, lastOk, warmVars>>
\* the agent runner and the helpers it calls
VARIABLES
  runner,       \* runEmbeddedPiAgent: its loop, the attempts made, the result
  helperCall    \* the last call of one of the agent's helper functions

agentVars == <<runner, helperCall>>

\* no run of the agent has started
NoAttempt == [promptError |-> "(no attempt)"]
NoResult == [status |-> "(running)"]
NoConfig == [historyLimit |-> [kind |-> "unset"], fallbackConfigured |-> FALSE]
NoProfileId == <<"(undefined)", 0>>
NoAuth == [locked |-> FALSE, candidates |-> << >>, initialThinkLevel |-> "off"]
NoRetries == [overflow |-> 0, thinking |-> 0, rotation |-> 0]
IdleRunner ==
  [pc |-> "idle", config |-> NoConfig, attempts |-> 0, last |-> NoAttempt,
   ran |-> {}, overflowCompactionAttempts |-> 0, result |-> NoResult,
   auth |-> NoAuth, profileIndex |-> 0, lastProfileId |-> NoProfileId,
   thinkLevel |-> "off", attemptedThinking |-> {}, applied |-> << >>,
   marked |-> {}, retries |-> NoRetries]

NoHelperCall == [fn |-> "(none)"]

AgentIdle == runner = IdleRunner /\ helperCall = NoHelperCall

vars == <<toolVars, managerVars, agentVars>>

Callers == 1..MaxWaiters

NoCur == [rows |-> {}, bad |-> FALSE]
NoBefore == [files |-> {}, chunks |-> {}]

\* the rows a store state holds for one file of one source
RowsOf(d, path, source) ==
  [files |-> { r \in d.files : r.path = path /\ r.source = source },
   chunks |-> { r \in d.chunks : r.path = path /\ r.source = source }]

IdleRun ==
  [pc |-> "idle", source |-> "none", tasks |-> << >>, cur |-> NoCur,
   metaWas |-> NoMeta, purged |-> FALSE, listed |-> {}, attempted |-> {},
   inserts |-> 0, embedCalls |-> 0, outcome |-> "none",
   clean |-> FALSE, disturbed |-> FALSE, failed |-> None, before |-> NoBefore,
   shortReply |-> FALSE]

NoSearch == [pending |-> FALSE]
NoCounts == [files |-> 0, chunks |-> 0]

InitFs ==
  [p \in Paths |->
     CASE p = "MEMORY.md" -> <<"alpha">>
       [] p = "memory/a.md" -> <<"alpha", "beta">>
       [] OTHER -> <<"gamma", "delta">>]

\* the sessions that start runs
WarmSessions == {K1, K2}

NoWarm == [session |-> NoStr, key |-> NoStr, synced |-> FALSE, n |-> 0]

\* no session has been warmed
WarmIdle ==
  /\ sessionWarm = {}
  /\ clock = 0
  /\ warmCall = NoWarm
  /\ windowStart = [k \in WarmSessions |-> NoNum]

\* a manager just constructed over an empty store
InitManager ==
  /\ WarmIdle
  /\ AgentIdle
  /\ identityMap = KnownIdentities
  /\ settings \in {BaseSettings, [BaseSettings EXCEPT !.cacheEnabled = FALSE]}
  /\ fs = InitFs
  /\ changes = 0
  /\ db = EmptyDb
  /\ txn = [c \in Clients |-> NoTxn]
  /\ idle = <<2, 1>>
  /\ syncing = FALSE
  /\ active = 0
  /\ callers = [c \in Callers |-> "idle"]
  /\ dirty = ("memory" \in settings.sources)
  /\ vectorDims = NoNum
  /\ lastCounts = NoCounts
  /\ run = IdleRun
  /\ searchCall = NoSearch
  /\ searches = 0
  /\ lastOk = FALSE

\* runSync starts: everything up to its first await
StartRun ==
  /\ syncing' = TRUE
  /\ active' = active + 1
  /\ run' = [IdleRun EXCEPT !.pc = "ensureSchema", !.clean = lastOk]

\* sync(): a call hands out the promise in flight or starts a run
sync_NoGuard == StartRun

sync == IF syncing THEN UNCHANGED <<syncing, active, run>> ELSE StartRun

\* a caller calls sync() and awaits the promise
SyncCall(c) ==
  /\ callers[c] # "awaiting"
  /\ callers' = [callers EXCEPT ![c] = "awaiting"]
  /\ sync
  /\ UNCHANGED <<toolVars, agentVars, warmVars, envVars, storeVars, mgrVars, searchCall, searches, lastOk>>

\* the error of a step rejects runSync
Rejected(r) == [r EXCEPT !.pc = "settled", !.outcome = "error", !.tasks = << >>,
                         !.cur = NoCur]

\* indexEntry threw: syncEntries does not catch, the error rejects runSync
FileFailed(r) == [Rejected(r) EXCEPT !.failed = Head(r.tasks).path]

\* the phase after the tasks of a source are done
AfterSource(r) ==
  IF r.source = "memory" /\ "sessions" \in settings.sources /\ settings.sessionMemory
  THEN "syncSessionFiles" ELSE "finish"

\* the first phase after the Meta check
FirstSource ==
  IF "memory" \in settings.sources THEN "syncMemoryFiles"
  ELSE IF "sessions" \in settings.sources /\ settings.sessionMemory
  THEN "syncSessionFiles" ELSE "finish"

\* a task returned: on to the next task or the next phase
TaskDone(r) ==
  LET rest == Tail(r.tasks)
  IN [r EXCEPT !.tasks = rest, !.cur = NoCur, !.before = NoBefore,
               !.pc = IF rest = << >> THEN
                        (IF r.source = "sessions" THEN "upsertActorDirectory"
                         ELSE AfterSource(r))
                      ELSE "indexEntry"]

\* runSync: ensureSchema, readMeta and the needsFullReindex decision
RunReadMeta ==
  /\ run.pc = "ensureSchema"
  /\ LET c == PoolClient(idle)
         meta == View(db, txn, c).meta
     IN IF Refused(txn, c)
        THEN run' = Rejected(run) /\ UNCHANGED vectorDims
        ELSE /\ vectorDims' = IF meta # NoMeta /\ meta.vectorDims > 0
                              THEN meta.vectorDims ELSE vectorDims
             /\ run' = [run EXCEPT !.metaWas = meta,
                          !.pc = IF needsFullReindex(meta, settings)
                                 THEN "clearIndex" ELSE FirstSource]
  /\ UNCHANGED <<toolVars, agentVars, warmVars, envVars, storeVars, coordVars, dirty, lastCounts,
                 searchCall, searches, lastOk>>

\* clearIndex: the three DELETE statements
RunClearIndex ==
  /\ run.pc = "clearIndex"
  /\ LET c == PoolClient(idle)
         r == Exec(db, txn, c, << [sql |-> "clearFiles"], [sql |-> "clearChunks"],
                                  [sql |-> "clearCache"] >>)
     IN IF Refused(txn, c)
        THEN run' = Rejected(run) /\ UNCHANGED <<db, txn>>
        ELSE /\ db' = r.db /\ txn' = r.txn
             /\ run' = [run EXCEPT !.pc = "writeMeta", !.purged = TRUE]
  /\ UNCHANGED <<toolVars, agentVars, warmVars, envVars, idle, coordVars, mgrVars, searchCall, searches, lastOk>>

\* writeMeta(baseMeta) after the purge
RunWriteMeta ==
  /\ run.pc = "writeMeta"
  /\ LET c == PoolClient(idle)
         r == Exec(db, txn, c, << [sql |-> "writeMeta",
                                   meta |-> BaseMeta(settings, vectorDims)] >>)
     IN IF Refused(txn, c)
        THEN run' = Rejected(run) /\ UNCHANGED <<db, txn>>
        ELSE /\ db' = r.db /\ txn' = r.txn
             /\ run' = [run EXCEPT !.pc = FirstSource]
  /\ UNCHANGED <<toolVars, agentVars, warmVars, envVars, idle, coordVars, mgrVars, searchCall, searches, lastOk>>

RECURSIVE StaleDeletes(_, _)
\* syncEntries: the DELETE statements for the stale paths of a source
StaleDeletes(paths, source) ==
  IF paths = {} THEN << >>
  ELSE LET p == CHOOSE x \in paths : TRUE
       IN << [sql |-> "deleteFile", path |-> p, source |-> source],
             [sql |-> "deleteChunks", path |-> p, source |-> source] >>
          \o StaleDeletes(paths \ {p}, source)

\* syncMemoryFiles / syncSessionFiles up to the task loop of syncEntries:
\* list the files, read the stored hashes, delete the stale rows
RunSyncEntries ==
  /\ run.pc \in {"syncMemoryFiles", "syncSessionFiles"}
  /\ LET source == IF run.pc = "syncMemoryFiles" THEN "memory" ELSE "sessions"
         entries == EntriesOf(fs, IF source = "memory" THEN MemoryPathSeq
                                  ELSE SessionPathSeq)
         c == PoolClient(idle)
         existing == { r \in View(db, txn, c).files : r.source = source }
         tasks == ChangedEntries(entries, existing)
         seen == { e.path : e \in SeqRange(entries) }
         stale == { r.path : r \in existing } \ seen
         r == Exec(db, txn, c, StaleDeletes(stale, source))
         listed == [run EXCEPT !.source = source, !.tasks = tasks,
                               !.listed = @ \cup seen]
     IN IF Refused(txn, c)
        THEN run' = Rejected(run) /\ UNCHANGED <<db, txn>>
        ELSE /\ db' = r.db /\ txn' = r.txn
             /\ run' = IF tasks = << >>
                       THEN [listed EXCEPT !.pc = IF source = "sessions"
                                                  THEN "upsertActorDirectory"
                                                  ELSE AfterSource(listed)]
                       ELSE [listed EXCEPT !.pc = "indexEntry"]
  /\ UNCHANGED <<toolVars, agentVars, warmVars, envVars, idle, coordVars, mgrVars, searchCall, searches, lastOk>>

\* indexEntry up to BEGIN: chunk the entry and embed the chunks (embedChunks)
RunIndexEntry(outcome) ==
  /\ run.pc = "indexEntry"
  /\ LET entry == Head(run.tasks)
         cs == EntryChunks(entry, run.source, settings)
         n == Len(cs)
         c == PoolClient(idle)
         r0 == [run EXCEPT !.attempted = @ \cup {entry.path},
                           !.before = RowsOf(db, entry.path, run.source)]
         r1 == [r0 EXCEPT !.embedCalls = @ + 1,
                          !.shortReply = @ \/ outcome \in {"short", "empty"}]
         allRows == { cs[i].row : i \in 1..n }
     IN IF n = 0
        THEN /\ outcome = "ok"
             /\ run' = TaskDone(r0)
             /\ UNCHANGED <<db, txn, vectorDims>>
        ELSE IF ~settings.cacheEnabled
        THEN LET k == VectorsReturned(outcome, n)
             IN /\ UNCHANGED <<db, txn>>
                /\ IF outcome = "throws"
                   THEN run' = FileFailed(r1) /\ UNCHANGED vectorDims
                   ELSE IF k = 0
                   THEN run' = TaskDone(r1) /\ UNCHANGED vectorDims
                   ELSE /\ vectorDims' = IF outcome = "empty" /\ n = 1 THEN 0
                                         ELSE ProviderDims
                        /\ run' = [r1 EXCEPT !.pc = "begin",
                                     !.cur = [rows |-> { cs[i].row : i \in 1..k },
                                              bad |-> outcome = "empty"]]
        ELSE IF Refused(txn, c)
        THEN /\ outcome = "ok"
             /\ run' = FileFailed(r0)
             /\ UNCHANGED <<db, txn, vectorDims>>
        ELSE LET cache == View(db, txn, c).cache
                 missing == UniqueHashes(
                              SelectSeq(cs, LAMBDA x : CacheRow(settings, x.hash) \notin cache),
                              {})
                 m == Len(missing)
                 k == VectorsReturned(outcome, m)
                 stored == Exec(db, txn, c,
                                << [sql |-> "upsertCache",
                                    rows |-> { CacheRow(settings, missing[i]) : i \in 1..k }] >>)
                 failed == ExecFailed(db, txn, c)
             IN IF m = 0
                THEN /\ outcome = "ok"
                     /\ vectorDims' = ProviderDims
                     /\ run' = [r0 EXCEPT !.pc = "begin",
                                  !.cur = [rows |-> allRows, bad |-> FALSE]]
                     /\ UNCHANGED <<db, txn>>
                ELSE IF outcome = "throws"
                THEN run' = FileFailed(r1) /\ UNCHANGED <<db, txn, vectorDims>>
                ELSE IF outcome = "empty"
                THEN /\ db' = failed.db /\ txn' = failed.txn
                     /\ run' = FileFailed(r1)
                     /\ UNCHANGED vectorDims
                ELSE /\ IF k > 0 THEN db' = stored.db /\ txn' = stored.txn
                        ELSE UNCHANGED <<db, txn>>
                     /\ IF k < m
                        THEN run' = FileFailed(r1) /\ UNCHANGED vectorDims
                        ELSE /\ vectorDims' = ProviderDims
                             /\ run' = [r1 EXCEPT !.pc = "begin",
                                          !.cur = [rows |-> allRows, bad |-> FALSE]]
  /\ UNCHANGED <<toolVars, agentVars, warmVars, envVars, idle, coordVars, dirty, lastCounts,
                 searchCall, searches, lastOk>>

\* indexEntry: pool.query("BEGIN"), outside the try block
TxnBegin ==
  /\ run.pc = "begin"
  /\ LET c == PoolClient(idle)
         r == ExecBegin(db, txn, c)
     IN IF Refused(txn, c)
        THEN run' = FileFailed(run) /\ UNCHANGED <<db, txn>>
        ELSE db' = r.db /\ txn' = r.txn /\ run' = [run EXCEPT !.pc = "upsertFile"]
  /\ UNCHANGED <<toolVars, agentVars, warmVars, envVars, idle, coordVars, mgrVars, searchCall, searches, lastOk>>

\* indexEntry: INSERT INTO memory_files ... ON CONFLICT (path) DO UPDATE
TxnUpsertFile ==
  /\ run.pc = "upsertFile"
  /\ LET c == PoolClient(idle)
         r == IF Refused(txn, c) THEN ExecFailed(db, txn, c)
              ELSE Exec(db, txn, c, << [sql |-> "upsertFile",
                                        row |-> FileRow(Head(run.tasks), run.source)] >>)
     IN /\ db' = r.db /\ txn' = r.txn
        /\ run' = [run EXCEPT !.pc = IF Refused(txn, c) THEN "rollback"
                                     ELSE "deleteChunks"]
  /\ UNCHANGED <<toolVars, agentVars, warmVars, envVars, idle, coordVars, mgrVars, searchCall, searches, lastOk>>

\* indexEntry: DELETE FROM memory_chunks WHERE path = $1 AND source = $2
TxnDeleteChunks ==
  /\ run.pc = "deleteChunks"
  /\ LET c == PoolClient(idle)
         r == IF Refused(txn, c) THEN ExecFailed(db, txn, c)
              ELSE Exec(db, txn, c, << [sql |-> "deleteChunks",
                                        path |-> Head(run.tasks).path,
                                        source |-> run.source] >>)
     IN /\ db' = r.db /\ txn' = r.txn
        /\ run' = [run EXCEPT !.pc = IF Refused(txn, c) THEN "rollback"
                                     ELSE "insertChunks"]
  /\ UNCHANGED <<toolVars, agentVars, warmVars, envVars, idle, coordVars, mgrVars, searchCall, searches, lastOk>>

\* indexEntry: INSERT INTO memory_chunks; the store may refuse it
TxnInsertChunks(storeOk) ==
  /\ run.pc = "insertChunks"
  /\ LET c == PoolClient(idle)
         fails == Refused(txn, c) \/ run.cur.bad \/ ~storeOk
         r == IF fails THEN ExecFailed(db, txn, c)
              ELSE Exec(db, txn, c, << [sql |-> "insertChunks",
                                        rows |-> run.cur.rows] >>)
     IN /\ db' = r.db /\ txn' = r.txn
        /\ run' = IF fails THEN [run EXCEPT !.pc = "rollback"]
                  ELSE [run EXCEPT !.pc = "commit",
                                   !.inserts = @ + Cardinality(run.cur.rows)]
  /\ UNCHANGED <<toolVars, agentVars, warmVars, envVars, idle, coordVars, mgrVars, searchCall, searches, lastOk>>

\* indexEntry: pool.query("COMMIT"); the task is done
TxnCommit ==
  /\ run.pc = "commit"
  /\ LET r == ExecCommit(db, txn, PoolClient(idle))
     IN db' = r.db /\ txn' = r.txn
  /\ run' = TaskDone(run)
  /\ UNCHANGED <<toolVars, agentVars, warmVars, envVars, idle, coordVars, mgrVars, searchCall, searches, lastOk>>

\* indexEntry: pool.query("ROLLBACK") in the catch block, then rethrow
TxnRollback ==
  /\ run.pc = "rollback"
  /\ LET r == ExecRollback(db, txn, PoolClient(idle))
     IN db' = r.db /\ txn' = r.txn
  /\ run' = FileFailed(run)
  /\ UNCHANGED <<toolVars, agentVars, warmVars, envVars, idle, coordVars, mgrVars, searchCall, searches, lastOk>>

\* syncSessionFiles: upsertActorDirectory(identityMap) after the tasks
RunUpsertActors ==
  /\ run.pc = "upsertActorDirectory"
  /\ LET c == PoolClient(idle)
         r == Exec(db, txn, c,
                   << [sql |-> "upsertActors",
                       rows |-> { SessionIdentity(p).userId : p \in SessionPaths }
                                  \ {NoStr}] >>)
     IN IF \A p \in SessionPaths : identityMap[p] = NoIdentity
        THEN run' = [run EXCEPT !.pc = "finish"] /\ UNCHANGED <<db, txn>>
        ELSE IF Refused(txn, c)
        THEN run' = Rejected(run) /\ UNCHANGED <<db, txn>>
        ELSE db' = r.db /\ txn' = r.txn /\ run' = [run EXCEPT !.pc = "finish"]
  /\ UNCHANGED <<toolVars, agentVars, warmVars, envVars, idle, coordVars, mgrVars, searchCall, searches, lastOk>>

\* runSync: the closing writeMeta, refreshCounts and this.dirty = false
RunFinish ==
  /\ run.pc = "finish"
  /\ LET c == PoolClient(idle)
         rewrite == vectorDims > 0 /\ (run.metaWas = NoMeta
                                       \/ run.metaWas.vectorDims # vectorDims)
         r == IF rewrite
              THEN Exec(db, txn, c, << [sql |-> "writeMeta",
                                        meta |-> BaseMeta(settings, vectorDims)] >>)
              ELSE [db |-> db, txn |-> txn]
         seen == View(r.db, r.txn, c)
     IN IF Refused(txn, c)
        THEN run' = Rejected(run) /\ UNCHANGED <<db, txn, dirty, lastCounts>>
        ELSE /\ db' = r.db /\ txn' = r.txn
             /\ lastCounts' = [files |-> Cardinality(seen.files),
                               chunks |-> Cardinality(seen.chunks)]
             /\ dirty' = FALSE
             /\ run' = [run EXCEPT !.pc = "settled", !.outcome = "ok"]
  /\ UNCHANGED <<toolVars, agentVars, warmVars, envVars, idle, coordVars, vectorDims, searchCall, searches, lastOk>>

\* a settling that clears this.syncing only when the run succeeded
SyncSettled_KeepsSlot ==
  /\ run.pc = "settled"
  /\ syncing' = (run.outcome # "ok")
  /\ active' = active - 1
  /\ callers' = [c \in Callers |->
                   IF callers[c] = "awaiting"
                   THEN (IF run.outcome = "ok" THEN "resolved" ELSE "rejected")
                   ELSE callers[c]]
  /\ lastOk' = (run.outcome = "ok" /\ ~run.disturbed)
  /\ run' = IdleRun
  /\ UNCHANGED <<toolVars, agentVars, warmVars, envVars, storeVars, mgrVars, searchCall, searches>>

\* the promise of runSync settles: .finally clears this.syncing and every
\* awaiting caller gets the outcome
SyncSettled ==
  /\ run.pc = "settled"
  /\ syncing' = FALSE
  /\ active' = active - 1
  /\ callers' = [c \in Callers |->
                   IF callers[c] = "awaiting"
                   THEN (IF run.outcome = "ok" THEN "resolved" ELSE "rejected")
                   ELSE callers[c]]
  /\ lastOk' = (run.outcome = "ok" /\ ~run.disturbed)
  /\ run' = IdleRun
  /\ UNCHANGED <<toolVars, agentVars, warmVars, envVars, storeVars, mgrVars, searchCall, searches>>

\* search(query, opts): the sync kick-off (warmSession() and the dirty
\* check), then the queries on the client the pool hands out
Search(query, opts, embed) ==
  /\ searchCall = NoSearch
  /\ searches < MaxSearches
  /\ searches' = searches + 1
  /\ IF settings.onSessionStart \/ (settings.onSearch /\ dirty)
     THEN sync ELSE UNCHANGED <<syncing, active, run>>
  /\ LET c == PoolClient(idle)
         rows == IF Refused(txn, c) THEN {} ELSE View(db, txn, c).chunks
     IN IF Trim(query) = EmptyStr
        THEN /\ searchCall' = [pending |-> TRUE, query |-> query, opts |-> opts,
                               embed |-> "none", outcome |-> Returned(<< >>),
                               client |-> 0]
             /\ UNCHANGED idle
        ELSE /\ \E out \in search(rows, settings, query, opts, embed) :
                  searchCall' = [pending |-> TRUE, query |-> query, opts |-> opts,
                                 embed |-> embed, outcome |-> out, client |-> c]
             /\ idle' = SubSeq(idle, 1, Len(idle) - 1)
  /\ UNCHANGED <<toolVars, agentVars, warmVars, envVars, db, txn, callers, mgrVars, lastOk>>

\* a search that would settle only once no sync is in flight
SearchReturn_AwaitsSync ==
  /\ searchCall # NoSearch
  /\ ~syncing
  /\ idle' = IF searchCall.client = 0 THEN idle ELSE Append(idle, searchCall.client)
  /\ searchCall' = NoSearch
  /\ UNCHANGED <<toolVars, agentVars, warmVars, envVars, db, txn, coordVars, mgrVars, run, searches, lastOk>>

\* the search settles and its client goes back to the pool
SearchReturn ==
  /\ searchCall # NoSearch
  /\ idle' = IF searchCall.client = 0 THEN idle ELSE Append(idle, searchCall.client)
  /\ searchCall' = NoSearch
  /\ UNCHANGED <<toolVars, agentVars, warmVars, envVars, db, txn, coordVars, mgrVars, run, searches, lastOk>>

\* a memory file or a transcript is written, emptied or removed
FsWrite(path, content) ==
  /\ changes < MaxChanges
  /\ fs[path] # content
  /\ fs' = [fs EXCEPT ![path] = content]
  /\ changes' = changes + 1
  /\ lastOk' = FALSE
  /\ run' = IF run.pc = "idle" THEN run ELSE [run EXCEPT !.disturbed = TRUE]
  /\ UNCHANGED <<toolVars, agentVars, warmVars, settings, identityMap, storeVars, coordVars, mgrVars, searchCall, searches>>

\* the process restarts with another configuration: a new manager and a
\* new pool over the same store
Restart(s) ==
  /\ changes < MaxChanges
  /\ ~syncing /\ searchCall = NoSearch
  /\ s # settings
  /\ settings' = s
  /\ changes' = changes + 1
  /\ txn' = [c \in Clients |-> NoTxn]
  /\ idle' = <<2, 1>>
  /\ dirty' = ("memory" \in s.sources)
  /\ vectorDims' = NoNum
  /\ lastCounts' = NoCounts
  /\ lastOk' = FALSE
  /\ sessionWarm' = {}
  /\ UNCHANGED <<toolVars, agentVars, clock, warmCall, windowStart, fs, identityMap, db, coordVars, run, searchCall, searches>>

\* the search options of the sessions that query while the index syncs
SyncSearchOpts ==
  { [maxResults |-> NoNum, minScore |-> NoNum, sessionKey |-> K1,
     sessionScope |-> "global", actorId |-> NoStr, actorType |-> NoStr,
     role |-> NoStr, mode |-> None, updatedAfter |-> NoNum,
     updatedBefore |-> NoNum] }

\* the tools are not part of the manager's specifications
ToolsIdle == agentSessionKey = K1 /\ sessionStore = NoEntry /\ toolCall = NoCall

\* the sync coordinator and the indexer, the pool used by the sync alone
Init == InitManager /\ ToolsIdle

SyncStep ==
  \/ RunReadMeta
  \/ RunClearIndex
  \/ RunWriteMeta
  \/ RunSyncEntries
  \/ \E outcome \in EmbedOutcomes : RunIndexEntry(outcome)
  \/ TxnBegin
  \/ TxnUpsertFile
  \/ TxnDeleteChunks
  \/ \E storeOk \in BOOLEAN : TxnInsertChunks(storeOk)
  \/ TxnCommit
  \/ TxnRollback
  \/ RunUpsertActors
  \/ RunFinish
  \/ SyncSettled

Next ==
  \/ \E c \in Callers : SyncCall(c)
  \/ SyncStep
  \/ \E p \in Paths, content \in Contents \cup {AbsentFile} : FsWrite(p, content)
  \/ \E s \in ManagerSettings : Restart(s)

Spec == Init /\ [][Next]_vars

\* searches running while the index syncs: the pool is shared
InitPool ==
  /\ InitManager
  /\ settings = BaseSettings
  /\ ToolsIdle

NextPool ==
  \/ SyncCall(1)
  \/ SyncStep
  \/ \E opts \in SyncSearchOpts : Search(<<"x">>, opts, "vector")
  \/ \E opts \in SyncSearchOpts : Search(<<Space, Space>>, opts, "vector")
  \/ SearchReturn
  \/ \E content \in Contents \cup {AbsentFile} : FsWrite("MEMORY.md", content)

SpecPool == InitPool /\ [][NextPool]_vars

\* ------------------------------------------- searches over a synced index
OlderTime == 10
WindowStart == 30

\* chunk rows as indexEntry writes them: a memory file, one session with a
\* user and an assistant message, other sessions of the same and of another
\* user, and a transcript the session store does not know
RowUniverse ==
  { MemoryChunkRow("MEMORY.md", 1, "alpha", BaseSettings.model, OlderTime),
    SessionChunkRow("sessions/s1.jsonl", 1, K1, WithChannel(<<"tg">>, U1), RoleUser,
                    "gamma", BaseSettings.model, FileTime),
    SessionChunkRow("sessions/s1.jsonl", 2, K1, WithChannel(<<"tg">>, U1), RoleAssistant,
                    "delta", BaseSettings.model, FileTime),
    SessionChunkRow("sessions/s2.jsonl", 1, K2, WithChannel(<<"tg">>, U1), RoleUser,
                    "alpha", BaseSettings.model, OlderTime),
    SessionChunkRow("sessions/s3.jsonl", 1, K2, WithChannel(<<"tg">>, U2), RoleUser,
                    "gamma", BaseSettings.model, FileTime),
    SessionChunkRow("sessions/s4.jsonl", 1, NoStr, NoStr, RoleUser,
                    "beta", BaseSettings.model, FileTime) }

\* the options a caller of search() may pass
SearchOpts ==
  [maxResults : {NoNum}, minScore : {NoNum},
   sessionKey : {NoStr, Padded(K1), <<Space>>},
   sessionScope : {None, "session", "actor", "global"},
   actorId : {NoStr, WithChannel(<<"tg">>, U1)},
   actorType : {NoStr, Human},
   role : {NoStr, RoleUser},
   mode : {None, "keyword", "vector", "hybrid"},
   updatedAfter : {NoNum, WindowStart},
   updatedBefore : {NoNum}]

QueryEmbeddings == {"vector", "zero", "throws"}

HighScore == 45

\* unfiltered searches with their own limits
LimitOpts ==
  [maxResults : {0, 1}, minScore : {NoNum, HighScore},
   sessionKey : {NoStr}, sessionScope : {"global"},
   actorId : {NoStr}, actorType : {NoStr}, role : {NoStr},
   mode : {None, "keyword", "vector", "hybrid"},
   updatedAfter : {NoNum}, updatedBefore : {NoNum}]

\* a manager whose last sync has completed, over any small index
InitSearch ==
  /\ settings = BaseSettings
  /\ fs = InitFs
  /\ changes = 0
  /\ \E rows \in SUBSET RowUniverse :
        /\ Cardinality(rows) <= MaxRows
        /\ db = [meta |-> BaseMeta(BaseSettings, ProviderDims),
                 files |-> { [path |-> r.path, source |-> r.source,
                              hash |-> hashText(<<"alpha">>)] : r \in rows },
                 chunks |-> rows, cache |-> {}, actors |-> {}]
  /\ txn = [c \in Clients |-> NoTxn]
  /\ idle = <<2, 1>>
  /\ syncing = FALSE
  /\ active = 0
  /\ callers = [c \in Callers |-> "idle"]
  /\ dirty = FALSE
  /\ vectorDims = ProviderDims
  /\ lastCounts = [files |-> Cardinality(db.files), chunks |-> Cardinality(db.chunks)]
  /\ run = IdleRun
  /\ searchCall = NoSearch
  /\ searches = 0
  /\ lastOk = FALSE
  /\ WarmIdle
  /\ AgentIdle
  /\ identityMap = KnownIdentities
  /\ ToolsIdle

NextSearch ==
  \/ \E opts \in SearchOpts, embed \in QueryEmbeddings : Search(<<"x">>, opts, embed)
  \/ \E opts \in SyncSearchOpts : Search(<<Space>>, opts, "vector")
  \/ \E opts \in LimitOpts, embed \in QueryEmbeddings : Search(<<"x">>, opts, embed)
  \/ SearchReturn

SpecSearch == InitSearch /\ [][NextSearch]_vars

\* ------------------------------------------------- claims on the manager
\* the filters of the search in progress
CallFilters == SearchFilters(searchCall.opts)

\* the chunk rows the search in progress has returned
ResultRows ==
  IF ~searchCall.pending THEN {}
  ELSE { r \in db.chunks :
           \E i \in DOMAIN searchCall.outcome.results :
             searchCall.outcome.results[i].id = r.id }

\* C1: a search with sessionScope = session (given or by default) and a
\* non-blank session key K returns only rows with source = 'sessions' and
\* session_key = K (trimmed), in every mode, whatever the other filters
\* and whatever else the index holds
C1_SessionScopeIsolation ==
  (searchCall.pending /\ CallFilters.sessionScope = "session"
                      /\ CallFilters.sessionKey # NoStr)
    => \A r \in ResultRows : r.source = "sessions"
                              /\ r.session_key = CallFilters.sessionKey

\* a session-scoped search returned rows of its session while the index
\* held a memory row or a row of another session
C1_Witness ==
  /\ searchCall.pending
  /\ CallFilters.sessionScope = "session"
  /\ CallFilters.sessionKey = K1
  /\ ResultRows # {}
  /\ \E r \in db.chunks : r.source = "memory" \/ r.session_key # K1

\* C5 as written: a search with sessionScope = actor returns a sessions row
\* only if the row's actor_id and actor_type equal the ones given; with
\* neither given no sessions row qualifies
C5_ActorScopeSessions ==
  (searchCall.pending /\ CallFilters.sessionScope = "actor")
    => \A r \in ResultRows :
         r.source = "sessions"
           => /\ CallFilters.actorId # NoStr \/ CallFilters.actorType # NoStr
              /\ CallFilters.actorId # NoStr => r.actor_id = CallFilters.actorId
              /\ CallFilters.actorType # NoStr => r.actor_type = CallFilters.actorType

\* C2: at most one runSync is executing; a sync() call while a run is in
\* flight starts no run and its caller settles with that run's outcome; a
\* sync() call with no run in flight starts exactly one run
C2_SyncCoalesces ==
  [][ /\ active' <= 1
      /\ \A c \in Callers :
           (callers[c] # "awaiting" /\ callers'[c] = "awaiting")
             => IF syncing THEN active' = active /\ run' = run
                ELSE active = 0 /\ active' = 1 /\ run'.pc = "ensureSchema"
      /\ \A c \in Callers :
           (callers[c] = "awaiting" /\ callers'[c] # "awaiting")
             => /\ run.pc = "settled"
                /\ callers'[c] = IF run.outcome = "ok" THEN "resolved" ELSE "rejected" ]_vars

\* two callers await one run that is past its start
C2_Witness ==
  /\ callers[1] = "awaiting" /\ callers[2] = "awaiting"
  /\ active = 1
  /\ run.pc \notin {"idle", "ensureSchema"}

\* C7 as written: when indexEntry fails for a file the sync still indexes
\* the remaining files and sources and its promise does not reject
C7_FileErrorAbsorbed ==
  (run.pc = "settled" /\ run.failed # None)
    => /\ run.outcome = "ok"
       /\ run.attempted = run.listed
       /\ run.source = "sessions"

\* C9 as written: a sync that starts after a sync completed without error,
\* with no file and no configuration changed since, inserts no chunk row
\* and makes no embedding call
C9_SecondSyncIdle ==
  (run.clean /\ ~run.disturbed) => (run.inserts = 0 /\ run.embedCalls = 0)

\* the purge happens exactly when the stored Meta is missing or differs
C10_PurgeDecision ==
  run.pc \notin {"idle", "ensureSchema", "clearIndex"}
    => (run.purged <=> needsFullReindex(run.metaWas, settings))

\* the purge empties the three tables, and Meta is rewritten before any file
C10_PurgeBeforeIndex ==
  /\ run.pc = "writeMeta"
       => db.files = {} /\ db.chunks = {} /\ db.cache = {} /\ run.attempted = {}
  /\ (run.purged /\ run.attempted # {}) => ~needsFullReindex(db.meta, settings)

\* C10 as written: a missing or differing Meta makes the next sync delete
\* every File, Chunk and cache row and rewrite Meta before it indexes any
\* file, and the sync then re-indexes every listed file of every source; a
\* matching Meta purges nothing
C10_FullReindex ==
  /\ C10_PurgeDecision
  /\ C10_PurgeBeforeIndex
  /\ (run.pc = "settled" /\ run.purged)
       => run.attempted = run.listed /\ run.source = "sessions"

\* C6 as written: when indexing a file fails, the committed File record and
\* chunks of that file are what they were before the attempt
C6_FailedFileUnchanged ==
  (run.pc = "settled" /\ run.failed # None)
    => RowsOf(db, run.failed, run.source) = run.before

\* C8 as written: while a file is being replaced, a query that starts now
\* sees either the File record and chunks from before the attempt or the
\* new File record with all the new chunks
C8_AtomicReplace ==
  run.pc \in {"upsertFile", "deleteChunks", "insertChunks", "commit", "rollback"}
    => LET entry == Head(run.tasks)
           seen == RowsOf(View(db, txn, PoolClient(idle)), entry.path, run.source)
           new == [files |-> {FileRow(entry, run.source)}, chunks |-> run.cur.rows]
       IN seen \in {run.before, new}

\* the cache rows written under another provider fingerprint than the
\* manager's own
ForeignCacheRows ==
  { r \in db.cache : \/ r.provider # settings.provider
                      \/ r.model # settings.model
                      \/ r.providerKey # settings.providerKey }

\* C11 as written: no step of a sync removes a cache row that was written
\* under another provider fingerprint of the same store
C11_ForeignCacheKept ==
  [][ \A r \in ForeignCacheRows : r \in db'.cache ]_vars

\* C12 as written: once provider.embedBatch has returned fewer vectors than
\* texts, or an empty vector, for a file, the sync goes no further than that
\* file's transaction: it settles with an error, the file's File record and
\* chunks are what they were, and no COMMIT is reached with fewer chunk
\* rows than the chunker produced
C12_ShortReplySurfaced ==
  /\ run.shortReply
       => /\ run.pc \in {"begin", "upsertFile", "deleteChunks", "insertChunks",
                         "rollback", "settled"}
          /\ run.pc = "settled"
               => /\ run.outcome = "error"
                  /\ run.failed # None
                  /\ RowsOf(db, run.failed, run.source) = run.before
  /\ run.pc = "commit"
       => Cardinality(run.cur.rows)
            = Len(EntryChunks(Head(run.tasks), run.source, settings))

\* ------------------------------------------------------ the memory tools

InitTools ==
  /\ InitManager
  /\ settings = BaseSettings
  /\ agentSessionKey \in AgentSessionKeys
  /\ sessionStore \in SessionEntries \cup {NoEntry}
  /\ toolCall = NoCall

\* createMemorySearchTool(...).execute up to the manager.search call
MemorySearchTool(p) ==
  /\ toolCall = NoCall
  /\ p.timeWindowHours = NoNum
  /\ toolCall' = [tool |-> "memory_search", params |-> p,
                  opts |-> MemorySearchOpts(agentSessionKey, sessionStore, p)]
  /\ UNCHANGED <<agentSessionKey, sessionStore, managerVars, agentVars>>

\* createMemoryRecallTool(...).execute up to the manager.search call
MemoryRecallTool(p) ==
  /\ toolCall = NoCall
  /\ toolCall' = [tool |-> "memory_recall", params |-> p,
                  opts |-> MemoryRecallOpts(agentSessionKey, sessionStore, p)]
  /\ UNCHANGED <<agentSessionKey, sessionStore, managerVars, agentVars>>

\* the tool returns its JSON envelope; the next call starts from scratch
ToolReturn ==
  /\ toolCall # NoCall
  /\ toolCall' = NoCall
  /\ UNCHANGED <<agentSessionKey, sessionStore, managerVars, agentVars>>

NextTools ==
  \/ \E p \in ToolParams : MemorySearchTool(p)
  \/ \E p \in ToolParams : MemoryRecallTool(p)
  \/ ToolReturn

SpecTools == InitTools /\ [][NextTools]_vars

\* ------------------------------------------------- claims on the tool layer
NoOverrides(p) == p.sessionScope = None /\ p.actorId = NoStr /\ p.actorType = NoStr

AmbientOf(call) == resolveActorContext(agentSessionKey, sessionStore)

\* C3 as written: with no explicit sessionScope, actorId or actorType,
\* memory_search resolves actor scope (actorId = ambient) exactly when the
\* ambient actorId is known, chatType is "direct" and the query has no
\* shared-context token; a query with a token gives global (session in a
\* group chat) with no actorId; every other case gives session, no actorId.
C3_TableAsWritten ==
  (toolCall.tool = "memory_search" /\ NoOverrides(toolCall.params)) =>
    LET amb == AmbientOf(toolCall)
        shared == isSharedContextQuery(toolCall.params.query)
        o == toolCall.opts
    IN IF amb.actorId # NoStr /\ amb.chatType = "direct" /\ ~shared
       THEN o.sessionScope = "actor" /\ o.actorId = amb.actorId
       ELSE IF shared
       THEN /\ o.sessionScope = (IF IsGroupChat(amb) THEN "session" ELSE "global")
            /\ o.actorId = NoStr
       ELSE o.sessionScope = "session" /\ o.actorId = NoStr

\* C3 amended: the first row also covers a session whose chatType is not
\* recorded: actor scope is resolved when the ambient actorId is known, the
\* chatType is "direct" or unknown (anything but a group/channel type) and
\* the query has no shared-context token; the other rows are as written.
C3_ScopeTable ==
  (toolCall.tool = "memory_search" /\ NoOverrides(toolCall.params)) =>
    LET amb == AmbientOf(toolCall)
        shared == isSharedContextQuery(toolCall.params.query)
        o == toolCall.opts
    IN IF amb.actorId # NoStr /\ amb.chatType \in {"direct", None} /\ ~shared
       THEN o.sessionScope = "actor" /\ o.actorId = amb.actorId
       ELSE IF shared
       THEN /\ o.sessionScope = (IF IsGroupChat(amb) THEN "session" ELSE "global")
            /\ o.actorId = NoStr
       ELSE o.sessionScope = "session" /\ o.actorId = NoStr

\* C3 witness: an auto-resolved actor scope in a session without chatType
C3_Witness ==
  /\ toolCall.tool = "memory_search"
  /\ NoOverrides(toolCall.params)
  /\ AmbientOf(toolCall).actorId = WithChannel(<<"tg">>, U1)
  /\ AmbientOf(toolCall).chatType = None
  /\ ~isSharedContextQuery(toolCall.params.query)
  /\ toolCall.opts.sessionScope = "actor"
  /\ toolCall.opts.actorId = WithChannel(<<"tg">>, U1)

\* C4: for the same ambient context, query and overrides memory_recall
\* hands the retriever the sessionScope, actorId and actorType that
\* memory_search would, plus updated_after = now - timeWindowHours.
C4_RecallMatchesSearch ==
  toolCall.tool = "memory_recall" =>
    LET s == MemorySearchOpts(agentSessionKey, sessionStore, toolCall.params)
        o == toolCall.opts
        h == toolCall.params.timeWindowHours
    IN /\ o.sessionScope = s.sessionScope
       /\ o.actorId = s.actorId
       /\ o.actorType = s.actorType
       /\ o.updatedAfter = (IF h # NoNum /\ h > 0 THEN Now - h ELSE NoNum)

\* ------------------------------------------------- the tools' execute()
\* jsonResult({...}): the payload (results, actors or text) is empty or
\* carries what the manager returned
ErrorEnvelope(message) ==
  [threw |-> FALSE, disabled |-> TRUE, error |-> message, payload |-> "empty"]
ResultEnvelope == [threw |-> FALSE, disabled |-> FALSE, error |-> None, payload |-> "content"]

\* an error that leaves a function
Thrown(message) == [threw |-> TRUE, disabled |-> FALSE, error |-> message, payload |-> None]

\* try { ... } catch (err) { return jsonResult({ ..., disabled: true, error }) },
\* without the catch block
Caught_NoCatch(outcome) == outcome

\* try { ... } catch (err) { return jsonResult({ ..., disabled: true, error }) }
Caught(outcome) == IF outcome.threw THEN ErrorEnvelope(outcome.error) ELSE outcome

\* readStringParam(params, key, { required: true }): the parameter as
\* given, undefined when it is absent
readStringParam(params, key) == params[key]

\* the paths memory_get may be asked for: what the path resolves to and
\* what the file system holds there
RequestPaths ==
  { r \in [given : BOOLEAN, blank : BOOLEAN, inWorkspace : BOOLEAN,
           memoryPath : BOOLEAN, extra : {"none", "dir", "file", "symlink"},
           md : BOOLEAN, kind : {"file", "symlink", "dir", "missing"}] :
      /\ (~r.given \/ r.blank)
           => (~r.inWorkspace /\ ~r.memoryPath /\ r.extra = "none" /\ ~r.md
               /\ r.kind = "missing")
      /\ ~r.given => ~r.blank
      /\ r.memoryPath => r.inWorkspace
      /\ r.extra = "file" => r.kind = "file" }

\* readFile without the lstat of the resolved path
readFile_NoLstat(r) ==
  IF ~r.given THEN Thrown("TypeError")
  ELSE IF r.blank THEN Thrown("path required")
  ELSE LET allowedWorkspace == r.inWorkspace /\ r.memoryPath
           allowedAdditional ==
             ~allowedWorkspace /\ (r.extra = "dir" \/ (r.extra = "file" /\ r.md))
       IN IF ~allowedWorkspace /\ ~allowedAdditional THEN Thrown("path required")
          ELSE IF ~r.md THEN Thrown("path required")
          ELSE IF r.kind = "missing" THEN Thrown("ENOENT")
          ELSE ResultEnvelope

\* readFile({ relPath }): the file's text, or the error thrown
readFile(r) ==
  IF ~r.given THEN Thrown("TypeError")
  ELSE IF r.blank THEN Thrown("path required")
  ELSE LET allowedWorkspace == r.inWorkspace /\ r.memoryPath
           allowedAdditional ==
             ~allowedWorkspace /\ (r.extra = "dir" \/ (r.extra = "file" /\ r.md))
       IN IF ~allowedWorkspace /\ ~allowedAdditional THEN Thrown("path required")
          ELSE IF ~r.md THEN Thrown("path required")
          ELSE IF r.kind = "missing" THEN Thrown("ENOENT")
          ELSE IF r.kind # "file" THEN Thrown("path required")
          ELSE ResultEnvelope

\* getMemorySearchManager: a manager, or none with an error message
Managers == {"ok", "unavailable"}

\* what the awaited manager.search does
CallOutcomes == {"returns", "throws"}

ExecQueries == {NoStr, <<"x">>}

\* execute() of a tool, given what its manager call does: the required
\* parameter is read before the try block, the manager is called inside it
execute(mgr, body) ==
  IF mgr = "unavailable" THEN ErrorEnvelope("unavailable") ELSE Caught(body)

\* memory_search: query.substring and the search inside the try block; the
\* statements after the search use rawResults and includeCitations, which
\* the file does not declare
ExecMemorySearch(q, mgr, out, decorated) ==
  /\ toolCall = NoCall
  /\ toolCall' =
       [tool |-> "memory_search", query |-> readStringParam([query |-> q], "query"),
        manager |-> mgr, call |-> out,
        result |-> execute(mgr,
                     IF q = NoStr THEN Thrown("TypeError")
                     ELSE IF out = "throws" THEN Thrown("search failed")
                     ELSE IF decorated THEN ResultEnvelope
                     ELSE Thrown("ReferenceError"))]
  /\ UNCHANGED <<agentSessionKey, sessionStore, managerVars, agentVars>>

\* memory_recall
ExecMemoryRecall(q, mgr, out) ==
  /\ toolCall = NoCall
  /\ toolCall' =
       [tool |-> "memory_recall", query |-> readStringParam([query |-> q], "query"),
        manager |-> mgr, call |-> out,
        result |-> execute(mgr,
                     IF q = NoStr THEN Thrown("TypeError")
                     ELSE IF out = "throws" THEN Thrown("search failed")
                     ELSE ResultEnvelope)]
  /\ UNCHANGED <<agentSessionKey, sessionStore, managerVars, agentVars>>

\* memory_get
ExecMemoryGet(r, mgr) ==
  /\ toolCall = NoCall
  /\ toolCall' =
       [tool |-> "memory_get", path |-> readStringParam([path |-> r], "path"),
        manager |-> mgr,
        call |-> IF readFile(r).threw THEN "throws" ELSE "returns",
        result |-> execute(mgr, readFile(r))]
  /\ UNCHANGED <<agentSessionKey, sessionStore, managerVars, agentVars>>

\* actor_lookup: lookupActors is called detached from the manager, so its
\* first use of this throws inside the try block; a missing query throws
\* there too
ExecActorLookup(q, mgr) ==
  /\ toolCall = NoCall
  /\ toolCall' =
       [tool |-> "actor_lookup", query |-> readStringParam([query |-> q], "query"),
        manager |-> mgr, call |-> "throws",
        result |-> execute(mgr, Thrown("TypeError"))]
  /\ UNCHANGED <<agentSessionKey, sessionStore, managerVars, agentVars>>

InitExec ==
  /\ InitManager
  /\ settings = BaseSettings
  /\ ToolsIdle

NextExec ==
  \/ \E q \in ExecQueries, mgr \in Managers, out \in CallOutcomes, decorated \in BOOLEAN :
       ExecMemorySearch(q, mgr, out, decorated)
  \/ \E q \in ExecQueries, mgr \in Managers, out \in CallOutcomes :
       ExecMemoryRecall(q, mgr, out)
  \/ \E r \in RequestPaths, mgr \in Managers : ExecMemoryGet(r, mgr)
  \/ \E q \in ExecQueries, mgr \in Managers : ExecActorLookup(q, mgr)
  \/ ToolReturn

SpecExec == InitExec /\ [][NextExec]_vars

\* the required parameter of the call in progress is absent
MissingParam ==
  IF toolCall.tool = "memory_get" THEN ~toolCall.path.given
  ELSE toolCall.query = NoStr

Readable(r) ==
  /\ r.given /\ ~r.blank /\ r.md /\ r.kind = "file"
  /\ (r.inWorkspace /\ r.memoryPath) \/ r.extra \in {"dir", "file"}

\* C14 as written: memory_get returns file content only for a path that
\* ends in .md, is a regular file and no symlink, and is a memory path
\* inside the workspace or lies within a configured extra path; for every
\* other path it reads nothing and returns disabled: true, "path required"
C14_PathRequired ==
  (toolCall.tool = "memory_get" /\ toolCall.manager = "ok" /\ toolCall.path.given)
    => IF Readable(toolCall.path)
       THEN TRUE
       ELSE toolCall.result = ErrorEnvelope("path required")

\* C14 amended: as written, except that an allowed .md path at which no
\* file exists gives disabled: true with the file system's error instead
\* of "path required"
C14_PathDenied ==
  (toolCall.tool = "memory_get" /\ toolCall.manager = "ok" /\ toolCall.path.given)
    => LET r == toolCall.path
           allowed == (r.inWorkspace /\ r.memoryPath) \/ r.extra \in {"dir", "file"}
       IN IF Readable(r) THEN toolCall.result = ResultEnvelope
          ELSE IF ~r.blank /\ allowed /\ r.md /\ r.kind = "missing"
          THEN toolCall.result = ErrorEnvelope("ENOENT")
          ELSE toolCall.result = ErrorEnvelope("path required")

\* memory_get was asked for a memory path that is a symlink and refused it
C14_Witness ==
  /\ toolCall.tool = "memory_get"
  /\ toolCall.manager = "ok"
  /\ toolCall.path.given /\ toolCall.path.memoryPath /\ toolCall.path.md
  /\ toolCall.path.kind = "symlink"
  /\ toolCall.result = ErrorEnvelope("path required")

\* ------------------------------------------------ claims on search()
\* the ids and scores of a result list, in order
Ranked(results) ==
  [i \in DOMAIN results |-> [id |-> results[i].id, score |-> results[i].score]]

\* the result lists a keyword-only search with the options of the search
\* in progress may return
KeywordOnly ==
  { Ranked(o.results) :
      o \in search(db.chunks, settings, searchCall.query,
                   [searchCall.opts EXCEPT !.mode = "keyword"], "vector") }

\* the search in progress is a vector or hybrid search of a non-blank query
VectorOrHybrid ==
  /\ searchCall.pending
  /\ Trim(searchCall.query) # EmptyStr
  /\ searchCall.opts.mode # "keyword"

\* C15 as written: a search with an empty or whitespace-only query returns
\* an empty result and touches nothing: it takes no pool client, starts no
\* sync run and leaves the store as it is
C15_BlankQueryTouchesNothing ==
  [][ (~searchCall.pending /\ searchCall'.pending
                           /\ Trim(searchCall'.query) = EmptyStr)
        => /\ searchCall'.outcome = Returned(<< >>)
           /\ searchCall'.client = 0
           /\ UNCHANGED <<db, txn, idle, syncing, active, run>> ]_vars

\* C16 as written: a vector or hybrid search whose query embedding is
\* all-zero returns what the keyword-only search returns for the same
\* query, filters, min_score and max_results
C16_ZeroVectorFallsBack ==
  (VectorOrHybrid /\ searchCall.embed = "zero")
    => /\ searchCall.outcome.status = "returned"
       /\ Ranked(searchCall.outcome.results) \in KeywordOnly

\* C17 as written: a vector or hybrid search whose query embedding call
\* throws returns the keyword-only results instead of failing
C17_EmbedFailureDegrades ==
  (VectorOrHybrid /\ searchCall.embed = "throws")
    => /\ searchCall.outcome.status = "returned"
       /\ Ranked(searchCall.outcome.results) \in KeywordOnly

\* max_results and min_score of the search in progress
CallMaxResults ==
  IF searchCall.opts.maxResults # NoNum THEN searchCall.opts.maxResults
  ELSE settings.maxResults
CallMinScore ==
  IF searchCall.opts.minScore # NoNum THEN searchCall.opts.minScore
  ELSE settings.minScore

\* C18: in every mode the returned list has at most max_results entries,
\* every entry has score >= min_score, and the scores do not increase
C18_LimitsAndOrder ==
  (searchCall.pending /\ searchCall.outcome.status = "returned")
    => LET res == searchCall.outcome.results
       IN /\ Len(res) <= CallMaxResults
          /\ \A i \in DOMAIN res : res[i].score >= CallMinScore
          /\ \A i, j \in DOMAIN res : i < j => res[i].score >= res[j].score

\* a hybrid search cut to one entry over an index of two matching rows
C18_Witness ==
  /\ searchCall.pending
  /\ searchCall.opts.mode = "hybrid"
  /\ searchCall.embed = "vector"
  /\ searchCall.opts.maxResults = 1
  /\ Len(searchCall.outcome.results) = 1
  /\ Cardinality({ r \in db.chunks :
                     (settings.vectorWeight * VectorScore(r.text)
                      + settings.textWeight * TextRank(r.text)) \div 100
                       >= CallMinScore }) = 2

\* C20: a search never waits for a sync: with on_search configured and the
\* index dirty the search starts the background run and still gets its
\* result from the rows the store shows at that moment, and a search in
\* progress can always return, whatever the run does
C20_SearchNeverWaits ==
  /\ [](searchCall.pending => ENABLED SearchReturn)
  /\ [][ (~searchCall.pending /\ searchCall'.pending /\ settings.onSearch /\ dirty)
           => /\ syncing'
              /\ UNCHANGED <<db, txn>>
              /\ (Trim(searchCall'.query) # EmptyStr
                    => searchCall'.outcome \in
                         search(IF Refused(txn, PoolClient(idle)) THEN {}
                                ELSE View(db, txn, PoolClient(idle)).chunks,
                                settings, searchCall'.query, searchCall'.opts,
                                searchCall'.embed)) ]_vars

\* a search returned its rows while the run it started had failed
C20_Witness ==
  /\ searchCall.pending
  /\ searchCall.outcome.status = "returned"
  /\ searchCall.outcome.results # << >>
  /\ run.pc = "settled" /\ run.outcome = "error"

\* ---------------------------------------------------------------------
\* session warm-up
\* ---------------------------------------------------------------------

\* the delay of the timer that forgets a warmed key
WarmMs == 60000

\* the clock advances in steps of half that delay
TickMs == 30000
MaxTicks == 3
MaxWarmCalls == 4

WarmSettings == [BaseSettings EXCEPT !.onSessionStart = TRUE]

\* warmSession(sessionKey) called at the start of a run of `session`
warmSession(session, sessionKey) ==
  LET key == IF TrimOrNone(sessionKey) = NoStr THEN EmptyStr ELSE Trim(sessionKey)
      warmed == Truthy(key) /\ \E e \in sessionWarm : e.key = key
      triggers == settings.onSessionStart /\ ~warmed
      opens == windowStart[session] = NoNum \/ clock - windowStart[session] >= WarmMs
  IN /\ warmCall.n < MaxWarmCalls
     /\ IF triggers THEN sync ELSE UNCHANGED <<syncing, active, run>>
     /\ sessionWarm' = IF triggers /\ Truthy(key)
                       THEN sessionWarm \cup {[key |-> key, expires |-> clock + WarmMs]}
                       ELSE sessionWarm
     /\ warmCall' = [session |-> session, key |-> sessionKey, synced |-> triggers,
                     n |-> warmCall.n + 1]
     /\ windowStart' = IF opens THEN [windowStart EXCEPT ![session] = clock]
                       ELSE windowStart
     /\ UNCHANGED <<toolVars, agentVars, clock, envVars, storeVars, callers, mgrVars,
                    searchCall, searches, lastOk>>

\* a caller that hands the session's key to the manager
WarmSession(session) == warmSession(session, session)

\* runEmbeddedAttempt: the run of a session starts
RunStart(session) == warmSession(session, NoStr)

\* time passes and the timers that are due fire
Tick ==
  /\ clock < MaxTicks * TickMs
  /\ clock' = clock + TickMs
  /\ sessionWarm' = { e \in sessionWarm : e.expires > clock + TickMs }
  /\ UNCHANGED <<toolVars, agentVars, warmCall, windowStart, envVars, storeVars, coordVars,
                 mgrVars, run, searchCall, searches, lastOk>>

InitWarm ==
  /\ WarmIdle
  /\ AgentIdle
  /\ identityMap = KnownIdentities
  /\ settings = WarmSettings
  /\ fs = [p \in Paths |-> IF p = "MEMORY.md" THEN <<"alpha">> ELSE AbsentFile]
  /\ changes = 0
  /\ db = EmptyDb
  /\ txn = [c \in Clients |-> NoTxn]
  /\ idle = <<2, 1>>
  /\ syncing = FALSE
  /\ active = 0
  /\ callers = [c \in Callers |-> "idle"]
  /\ dirty = ("memory" \in settings.sources)
  /\ vectorDims = NoNum
  /\ lastCounts = NoCounts
  /\ run = IdleRun
  /\ searchCall = NoSearch
  /\ searches = 0
  /\ lastOk = FALSE
  /\ ToolsIdle

NextWarm ==
  \/ \E k \in WarmSessions : RunStart(k)
  \/ \E k \in WarmSessions : WarmSession(k)
  \/ Tick
  \/ SyncStep

SpecWarm == InitWarm /\ [][NextWarm]_vars

\* C19: the warm-up of a session is de-duplicated for 60 s: of the warm-up
\* calls made for one session a call starts a sync exactly when it is the
\* first for that session or the 60 s since the first of the current
\* window have elapsed
C19_WarmDeduplicated ==
  [][ warmCall'.n # warmCall.n
        => (warmCall'.synced
              <=> \/ windowStart[warmCall'.session] = NoNum
                  \/ clock - windowStart[warmCall'.session] >= WarmMs) ]_vars

\* ---------------------------------------------------------------------
\* the agent runner: runEmbeddedPiAgent
\* ---------------------------------------------------------------------

\* shares of the context window are counted in thousandths
Thousand == 1000
DEFAULT_COMPACTION_HISTORY_LIMIT == 700
MinHistoryLimit == 100
MaxHistoryLimit == 900

\* agents.defaults.compaction.historyLimit as configured: absent, a number
\* that is not finite, or a share
HistoryLimits ==
  {[kind |-> "unset"], [kind |-> "nan"]}
    \cup {[kind |-> "number", value |-> v] : v \in {50, 100, 500, 950}}

resolveCompactionHistoryLimit(raw) ==
  IF raw.kind = "number"
  THEN Min(MaxHistoryLimit, Max(MinHistoryLimit, raw.value))
  ELSE DEFAULT_COMPACTION_HISTORY_LIMIT

\* ctxInfo.tokens
ContextWindow == 1000

\* estimateMessagesTokens(attempt.messagesSnapshot); NoNum with no snapshot
PostTokens == {NoNum, 100, 101, 500, 501, 700, 701, 900, 901}

MaxAttempts == 2

PromptErrors ==
  {"none", "context_overflow", "compaction_failure", "role_ordering",
   "image_size", "failover", "other"}

\* isContextOverflowError(errorText)
isContextOverflowError(e) == e \in {"context_overflow", "compaction_failure"}

\* isCompactionFailureError(errorText)
isCompactionFailureError(e) == e = "compaction_failure"

\* what one runEmbeddedAttempt and the calls around it can give; the results
\* an iteration does not read are left at one value
Attempts ==
  { a \in [aborted : BOOLEAN, timedOut : BOOLEAN, promptError : PromptErrors,
           assistantFailure : BOOLEAN, fallbackThinking : BOOLEAN,
           rotated : BOOLEAN, preOver : BOOLEAN, post : PostTokens,
           compacted : BOOLEAN] :
      /\ a.timedOut => a.promptError = "none"
      /\ a.assistantFailure => a.promptError = "none"
      /\ a.fallbackThinking => a.promptError \in {"none", "other"}
      /\ a.rotated => a.promptError \in {"none", "failover"}
      /\ a.post # NoNum => a.promptError = "none"
      /\ a.compacted => a.promptError = "context_overflow" }

Payload(kind, aborted) == [status |-> "payload", kind |-> kind, aborted |-> aborted]
Throws(error) == [status |-> "thrown", kind |-> error, aborted |-> FALSE]
Continue == [status |-> "continue", kind |-> "retry", aborted |-> FALSE]

\* the flag as a declared boolean that nothing ever sets
overflowCompactionAttempted_Declared(r) == {[threw |-> FALSE, value |-> FALSE]}

\* reading overflowCompactionAttempted: the loop declares
\* overflowCompactionAttempts and nothing declares this name, so the read
\* throws a ReferenceError
overflowCompactionAttempted(r) == {[threw |-> TRUE, value |-> FALSE]}

\* the context-overflow branch of the loop: the compactions it runs and how
\* the iteration ends
OverflowBranch(r, a) ==
  LET isCompactionFailure == isCompactionFailureError(a.promptError)
  IN IF isCompactionFailure
     THEN {[ran |-> {}, end |-> Payload("compaction_failure", FALSE)]}
     ELSE { IF v.threw
            THEN [ran |-> {}, end |-> Throws("ReferenceError")]
            ELSE IF ~v.value
                 THEN [ran |-> {"overflow"},
                       end |-> IF a.compacted THEN Continue
                               ELSE Payload("context_overflow", FALSE)]
                 ELSE [ran |-> {}, end |-> Payload("context_overflow", FALSE)]
            : v \in overflowCompactionAttempted(r) }

\* the proactive compaction after the attempt
ProactiveDue(config, a) ==
  /\ a.post # NoNum
  /\ a.post * Thousand > ContextWindow * resolveCompactionHistoryLimit(config.historyLimit)

\* the rest of an iteration, from the prompt-error checks to the return
AfterAttempt(r, a) ==
  IF a.promptError # "none" /\ ~a.aborted
  THEN IF isContextOverflowError(a.promptError)
       THEN OverflowBranch(r, a)
       ELSE {[ran |-> {},
              end |-> CASE a.promptError \in {"role_ordering", "image_size"}
                             -> Payload(a.promptError, FALSE)
                        [] a.promptError = "failover" /\ a.rotated -> Continue
                        [] a.fallbackThinking -> Continue
                        [] a.promptError = "failover" /\ r.config.fallbackConfigured
                             -> Throws("FailoverError")
                        [] OTHER -> Throws("promptError")]}
  ELSE IF a.fallbackThinking /\ ~a.aborted
       THEN {[ran |-> {}, end |-> Continue]}
       ELSE IF ((~a.aborted /\ a.assistantFailure) \/ a.timedOut) /\ a.rotated
            THEN {[ran |-> {}, end |-> Continue]}
            ELSE IF ((~a.aborted /\ a.assistantFailure) \/ a.timedOut)
                    /\ r.config.fallbackConfigured
                 THEN {[ran |-> {}, end |-> Throws("FailoverError")]}
                 ELSE {[ran |-> IF ProactiveDue(r.config, a) THEN {"proactive"} ELSE {},
                        end |-> Payload("ok", a.aborted)]}

\* runEmbeddedPiAgent is called
RunnerStart(config) ==
  /\ runner.pc = "idle"
  /\ runner' = [IdleRunner EXCEPT !.pc = "attempt", !.config = config]
  /\ UNCHANGED <<toolVars, managerVars, helperCall>>

\* one iteration of the while (true) loop
RunnerAttempt(a) ==
  /\ runner.pc = "attempt"
  /\ runner.attempts < MaxAttempts
  /\ \E out \in AfterAttempt(runner, a) :
       runner' = [runner EXCEPT
                    !.attempts = @ + 1,
                    !.last = a,
                    !.ran = (IF a.preOver THEN {"pre-run"} ELSE {}) \cup out.ran,
                    !.pc = IF out.end.status = "continue" THEN "attempt" ELSE "done",
                    !.result = out.end]
  /\ UNCHANGED <<toolVars, managerVars, helperCall>>

InitRunner == InitManager /\ settings = BaseSettings /\ ToolsIdle

NextRunner ==
  \/ \E limit \in HistoryLimits, fallbackConfigured \in BOOLEAN :
       RunnerStart([historyLimit |-> limit, fallbackConfigured |-> fallbackConfigured])
  \/ \E a \in Attempts : RunnerAttempt(a)

SpecRunner == InitRunner /\ [][NextRunner]_vars

\* C21: an attempt that failed with a context overflow which is not a
\* compaction failure makes the runner compact and then retry the prompt
\* when the compaction succeeded, and return the context_overflow error
\* payload when it did not; a compaction failure is answered by the
\* compaction_failure error payload with no compaction and no retry
C21_OverflowRecovery ==
  (runner.attempts > 0 /\ ~runner.last.aborted
     /\ isContextOverflowError(runner.last.promptError))
    => IF isCompactionFailureError(runner.last.promptError)
       THEN /\ runner.result = Payload("compaction_failure", FALSE)
            /\ "overflow" \notin runner.ran
       ELSE /\ "overflow" \in runner.ran
            /\ runner.result = IF runner.last.compacted THEN Continue
                               ELSE Payload("context_overflow", FALSE)

\* C22: the proactive compaction runs after a turn exactly when the turn
\* succeeded (neither aborted nor ended by an assistant failure) and the
\* history estimate exceeds historyLimit x context window, historyLimit
\* being the configured share within 0.1..0.9 and 0.7 when unset or not
\* finite
C22_ProactiveCompaction ==
  (runner.pc = "done" /\ runner.result.status = "payload" /\ runner.result.kind = "ok")
    => ("proactive" \in runner.ran
          <=> /\ ~runner.last.aborted
              /\ ~runner.last.assistantFailure
              /\ ~runner.last.timedOut
              /\ runner.last.post # NoNum
              /\ runner.last.post * Thousand
                   > ContextWindow
                       * (LET raw == runner.config.historyLimit
                          IN IF raw.kind # "number" THEN DEFAULT_COMPACTION_HISTORY_LIMIT
                             ELSE IF raw.value < MinHistoryLimit THEN MinHistoryLimit
                             ELSE IF raw.value > MaxHistoryLimit THEN MaxHistoryLimit
                             ELSE raw.value))

\* ---------------------------------------------------------------------
\* the workspace files the agent may write
\* ---------------------------------------------------------------------

ALLOWED_WRITABLE_WORKSPACE_FILES ==
  {"AGENTS.md", "BOOT.md", "BOOTSTRAP.md", "HEARTBEAT.md", "SOUL_PLUS.md",
   "IDENTITY_PLUS.md", "USER_PLUS.md", "MEMORY.md", "memory.md"}

\* the files the workspace rules call read-only
ImmutableFiles == {"SOUL.md", "IDENTITY.md", "USER.md", "TOOLS.md"}

Slash == "/"
Backslash == "\\"

\* a path is a sequence of pieces: names, dots, separators and blanks
MaxPathLen == 5
PathPieces == {"memory", "SOUL.md", "MEMORY.md", ".", "..", Slash, Backslash, Space}
RelativePaths == UNION {[1..n -> PathPieces] : n \in 1..MaxPathLen}

\* relativePath.replace(/\\/g, "/")
ReplaceBackslashes(p) == [i \in 1..Len(p) |-> IF p[i] = Backslash THEN Slash ELSE p[i]]

isAllowedWritablePath(relativePath) ==
  LET normalized == Trim(ReplaceBackslashes(relativePath))
  IN \/ \E f \in ALLOWED_WRITABLE_WORKSPACE_FILES : normalized = <<f>>
     \/ (Len(normalized) >= 2 /\ normalized[1] = "memory" /\ normalized[2] = Slash)

\* the segments of a path, split at its separators
RECURSIVE Segments(_)
Segments(p) ==
  IF \A i \in 1..Len(p) : p[i] # Slash THEN <<p>>
  ELSE LET k == CHOOSE i \in 1..Len(p) : p[i] = Slash /\ \A j \in 1..(i - 1) : p[j] # Slash
       IN <<SubSeq(p, 1, k - 1)>> \o Segments(SubSeq(p, k + 1, Len(p)))

\* the file a relative path designates: its segments with "." and empty
\* segments dropped and ".." stepping to the parent; above the workspace
\* root it designates nothing of the workspace
RECURSIVE Resolve(_, _)
Resolve(segs, at) ==
  IF segs = << >> THEN [inside |-> TRUE, at |-> at]
  ELSE LET seg == Head(segs)
       IN IF seg = << >> \/ seg = <<".">> THEN Resolve(Tail(segs), at)
          ELSE IF seg = <<"..">>
               THEN IF at = << >> THEN [inside |-> FALSE, at |-> << >>]
                    ELSE Resolve(Tail(segs), SubSeq(at, 1, Len(at) - 1))
               ELSE Resolve(Tail(segs), Append(at, seg))

Designates(relativePath) ==
  Resolve(Segments(Trim(ReplaceBackslashes(relativePath))), << >>)

\* one call of isAllowedWritablePath, with any of the paths
CheckWritable ==
  /\ helperCall = NoHelperCall
  /\ \E relativePath \in RelativePaths :
       helperCall' = [fn |-> "isAllowedWritablePath", arg |-> relativePath,
                      result |-> isAllowedWritablePath(relativePath)]
  /\ UNCHANGED <<toolVars, managerVars, runner>>

InitHelpers == InitManager /\ settings = BaseSettings /\ ToolsIdle

NextWritable == CheckWritable

SpecWritable == InitHelpers /\ [][NextWritable]_vars

\* C23: isAllowedWritablePath answers true only for a path that designates
\* one of the listed writable files or a file under memory/ (the directory
\* itself is let pass), and never for a path that designates SOUL.md,
\* IDENTITY.md, USER.md or TOOLS.md
C23_WritableOnlyListed ==
  (helperCall.fn = "isAllowedWritablePath" /\ helperCall.result)
    => LET d == Designates(helperCall.arg)
       IN /\ d.inside
          /\ \/ \E f \in ALLOWED_WRITABLE_WORKSPACE_FILES : d.at = <<<<f>>>>
             \/ (Len(d.at) >= 1 /\ d.at[1] = <<"memory">>)
          /\ \A f \in ImmutableFiles : d.at # <<<<f>>>>

\* ---------------------------------------------------------------------
\* citation decoration
\* ---------------------------------------------------------------------

\* session keys as their ":"-separated tokens
CitationSessionKeys ==
  { NoStr,
    <<"agent", "a1", "main">>,
    <<"agent", "a1", "discord", "group", "g1">>,
    <<"agent", "a1", "discord", "GROUP", "g1">>,
    <<"agent", "a1", "slack", "channel", "c1">>,
    <<"agent", "a1", "discord", "room", "r1">>,
    <<"cron", "job1">> }

LowerToken(t) == IF t = "GROUP" THEN "group" ELSE t

\* parseAgentSessionKey: agent:<agentId>:<rest>, nothing for any other key
parseAgentSessionKey(sessionKey) ==
  IF sessionKey = NoStr \/ Len(sessionKey) < 3 \/ sessionKey[1] # "agent"
  THEN [rest |-> << >>]
  ELSE [rest |-> SubSeq(sessionKey, 3, Len(sessionKey))]

deriveChatTypeFromSessionKey(sessionKey) ==
  LET parsed == parseAgentSessionKey(sessionKey)
      tokens == {LowerToken(parsed.rest[i]) : i \in 1..Len(parsed.rest)}
  IN IF parsed.rest = << >> THEN "direct"
     ELSE IF "channel" \in tokens THEN "channel"
     ELSE IF "group" \in tokens THEN "group"
     ELSE "direct"

\* memory.citations as configured
CitationSettings == {NoStr, <<"on">>, <<"off">>, <<"auto">>, <<"always">>}

resolveMemoryCitationsMode(raw) ==
  IF raw \in {<<"on">>, <<"off">>, <<"auto">>} THEN raw[1] ELSE "auto"

shouldIncludeCitations(mode, sessionKey) ==
  IF mode = "on" THEN TRUE
  ELSE IF mode = "off" THEN FALSE
  ELSE deriveChatTypeFromSessionKey(sessionKey) = "direct"

formatCitation(entry) ==
  IF entry.startLine = entry.endLine
  THEN <<entry.path, "#L", entry.startLine>>
  ELSE <<entry.path, "#L", entry.startLine, "-L", entry.endLine>>

decorateCitations(results, include) ==
  [i \in 1..Len(results) |->
     IF ~include THEN [results[i] EXCEPT !.citation = NoStr]
     ELSE [results[i] EXCEPT
             !.citation = formatCitation(results[i]),
             !.snippet = Trim(@) \o <<"\n\nSource: ">> \o formatCitation(results[i])]]

\* the results handed to the decoration
MaxResultRows == 2
ResultEntries ==
  { e \in [path : {"MEMORY.md", "memory/a.md"}, startLine : 1..2, endLine : 1..3,
           snippet : {<<"alpha">>, <<Space, "beta">>}, citation : {NoStr, <<"stale">>}] :
      e.startLine <= e.endLine }
ResultLists == UNION {[1..n -> ResultEntries] : n \in 0..MaxResultRows}

\* the decoration of one result list for a session and a configured mode
DecorateCall ==
  /\ helperCall = NoHelperCall
  /\ \E raw \in CitationSettings, sessionKey \in CitationSessionKeys,
        results \in ResultLists :
       LET mode == resolveMemoryCitationsMode(raw)
           include == shouldIncludeCitations(mode, sessionKey)
       IN helperCall' = [fn |-> "decorateCitations", mode |-> mode,
                         sessionKey |-> sessionKey, arg |-> results,
                         result |-> decorateCitations(results, include)]
  /\ UNCHANGED <<toolVars, managerVars, runner>>

NextCitations == DecorateCall

SpecCitations == InitHelpers /\ [][NextCitations]_vars

\* the kind of chat a session key names: group, and channel or room, by
\* the key patterns; every other key is a direct chat
KeyChatType(sessionKey) ==
  IF sessionKey = NoStr \/ sessionKey[1] # "agent" THEN "direct"
  ELSE LET tokens == {LowerToken(sessionKey[i]) : i \in 3..Len(sessionKey)}
       IN IF "channel" \in tokens \/ "room" \in tokens THEN "channel"
          ELSE IF "group" \in tokens THEN "group"
          ELSE "direct"

\* C24: every result is decorated with citation = path#Lstart (start = end)
\* or path#Lstart-Lend when the mode is on, or auto in a direct chat; no
\* result carries a citation when the mode is off, or auto in a group,
\* channel or room session
C24_CitationDecoration ==
  helperCall.fn = "decorateCitations"
    => LET on == \/ helperCall.mode = "on"
                 \/ (helperCall.mode = "auto"
                       /\ KeyChatType(helperCall.sessionKey) = "direct")
       IN /\ Len(helperCall.result) = Len(helperCall.arg)
          /\ \A i \in 1..Len(helperCall.arg) :
               LET in == helperCall.arg[i]
                   out == helperCall.result[i]
               IN out.citation =
                    IF ~on THEN NoStr
                    ELSE IF in.startLine = in.endLine
                         THEN <<in.path, "#L", in.startLine>>
                         ELSE <<in.path, "#L", in.startLine, "-L", in.endLine>>

\* ---------------------------------------------------------------------
\* claims on what a sync leaves in the store
\* ---------------------------------------------------------------------

\* the pass over a source: from listing its files to its last task
PassPcs ==
  {"syncMemoryFiles", "syncSessionFiles", "indexEntry", "begin", "upsertFile",
   "deleteChunks", "insertChunks", "commit"}

\* this step ends the pass over run'.source with every task done
PassCompletes ==
  /\ run.pc \in PassPcs
  /\ run'.pc \in {"syncSessionFiles", "upsertActorDirectory", "finish"}
  /\ run'.pc # run.pc

\* this step is the listing of a source with its stale deletes
StaleStep ==
  /\ run.pc \in {"syncMemoryFiles", "syncSessionFiles"}
  /\ run'.pc # run.pc
  /\ run'.pc # "settled"

\* C25: when the pass over a source completes the store holds no File row
\* and no Chunk row of that source for a path the source did not list, and
\* the stale deletes remove no row of the other source or of a listed path
C25_StaleRowsDeleted ==
  [][ /\ PassCompletes
        => \A r \in db'.files \cup db'.chunks :
             r.source = run'.source => r.path \in run'.listed
      /\ StaleStep
        => /\ \A r \in db.files :
                (r.source # run'.source \/ r.path \in run'.listed) => r \in db'.files
           /\ \A r \in db.chunks :
                (r.source # run'.source \/ r.path \in run'.listed) => r \in db'.chunks
    ]_vars

\* the entry syncEntries builds for a listed path
CurrentEntry(p) == [path |-> p, hash |-> hashText(fs[p]), content |-> fs[p]]

\* the chunk rows of the current content of a path
CurrentRows(p) ==
  LET cs == EntryChunks(CurrentEntry(p), SourceOf(p), settings)
  IN { cs[i].row : i \in 1..Len(cs) }

\* C26: when a sync has completed without error and no file changed
\* meanwhile, every file it listed, also one whose content yields no chunk,
\* has a File record with the hash of its current content, and the chunks
\* stored for its path are exactly those of that content
C26_IndexCurrent ==
  (run.pc = "settled" /\ run.outcome = "ok" /\ ~run.disturbed)
    => \A p \in run.listed :
         /\ \E f \in db.files :
              f.path = p /\ f.source = SourceOf(p) /\ f.hash = hashText(fs[p])
         /\ RowsOf(db, p, SourceOf(p)).chunks = CurrentRows(p)

\* ---------------------------------------------------------------------
\* transcripts with and without an entry in the session store
\* ---------------------------------------------------------------------

\* the session store gains or loses the entry of a transcript
StoreWrite(m) ==
  /\ changes < MaxChanges
  /\ m # identityMap
  /\ identityMap' = m
  /\ changes' = changes + 1
  /\ lastOk' = FALSE
  /\ UNCHANGED <<toolVars, agentVars, warmVars, settings, fs, storeVars, coordVars,
                 mgrVars, run, searchCall, searches>>

InitTranscripts ==
  /\ WarmIdle
  /\ AgentIdle
  /\ identityMap \in {KnownIdentities, UnknownIdentities}
  /\ settings = BaseSettings
  /\ fs = InitFs
  /\ changes = 0
  /\ db = EmptyDb
  /\ txn = [c \in Clients |-> NoTxn]
  /\ idle = <<2, 1>>
  /\ syncing = FALSE
  /\ active = 0
  /\ callers = [c \in Callers |-> "idle"]
  /\ dirty = ("memory" \in settings.sources)
  /\ vectorDims = NoNum
  /\ lastCounts = NoCounts
  /\ run = IdleRun
  /\ searchCall = NoSearch
  /\ searches = 0
  /\ lastOk = FALSE
  /\ ToolsIdle

NextTranscripts ==
  \/ SyncCall(1)
  \/ SyncStep
  \/ \E p \in SessionPaths, content \in Contents \cup {AbsentFile} : FsWrite(p, content)
  \/ \E m \in {KnownIdentities, UnknownIdentities} : StoreWrite(m)

SpecTranscripts == InitTranscripts /\ [][NextTranscripts]_vars

\* C27: every chunk of source sessions has a session_key and a message_id,
\* also when its transcript has no entry in the session store, and every
\* chunk of role system is of source memory
C27_SessionChunksKeyed ==
  \A r \in db.chunks :
    /\ r.source = "sessions" => (r.session_key # NoStr /\ r.message_id # NoStr)
    /\ r.role = RoleSystem => r.source = "memory"

\* C28: when a sync has ended with an error the dirty flag is set, and the
\* flag is cleared only by the end of a sync that completed without error,
\* so it stays set from a failed sync to the next successful one
C28_DirtyUntilSynced ==
  /\ []((run.pc = "settled" /\ run.outcome = "error") => dirty)
  /\ [][ (dirty /\ ~dirty') => (run'.pc = "settled" /\ run'.outcome = "ok") ]_vars

\* ---------------------------------------------------------------------
\* the recency window of the recall context: resolveRecallWindow
\* ---------------------------------------------------------------------

\* 24 * 60 * 60 * 1000 milliseconds. Times are counted in seconds here, a
\* day of this century being past the 32 bits of the integers in
\* milliseconds: the last millisecond of a day is its last second
DayMs == 86400
RecallDays == 30

\* Date.now() of the call: 2024-01-10T12:00:00Z
RecallNow == 19732 * DayMs + 43200

\* file names of the form YYYY-MM-DD.md with the day new Date() gives them,
\* counted from 1970-01-01; 2024-13-01 is no date
DateFiles ==
  [name : {"1970-01-01.md"}, valid : {TRUE}, day : {0}]
    \cup [name : {"1970-01-02.md"}, valid : {TRUE}, day : {1}]
    \cup [name : {"2024-01-02.md"}, valid : {TRUE}, day : {19724}]
    \cup [name : {"2024-13-01.md"}, valid : {FALSE}, day : {0}]

IsDateFile(piece) == \E d \in DateFiles : d.name = piece
DateOf(piece) == CHOOSE d \in DateFiles : d.name = piece

\* the paths of the context files, in pieces
ContextPaths ==
  { <<"memory", Slash, "1970-01-01.md">>,
    <<"memory", Slash, "1970-01-02.md">>,
    <<"ws", Slash, "memory", Slash, "2024-01-02.md">>,
    <<"ws", Backslash, "MEMORY", Backslash, "2024-01-02.md">>,
    <<"memory", Slash, "2024-13-01.md">>,
    <<"memory", Slash, "notes.md">>,
    <<"MEMORY.md">>,
    <<"ws", Slash, "MEMORY.md">>,
    <<"ws", Backslash, "memory.md">>,
    <<"AGENTS.md">> }

MaxContextFiles == 3
ContextFileLists == UNION {[1..n -> ContextPaths] : n \in 0..MaxContextFiles}

LowerPiece(piece) ==
  IF piece = "MEMORY.md" THEN "memory.md" ELSE IF piece = "MEMORY" THEN "memory" ELSE piece

\* normalized.match(/memory\/(\d{4}-\d{2}-\d{2})\.md$/i)
MatchesMemoryDate(path) ==
  LET normalized == ReplaceBackslashes(path)
      n == Len(normalized)
  IN /\ n >= 3
     /\ IsDateFile(normalized[n])
     /\ normalized[n - 1] = Slash
     /\ LowerPiece(normalized[n - 2]) = "memory"

Unset == [set |-> FALSE, value |-> 0]
Num(v) == [set |-> TRUE, value |-> v]

\* a number used as a condition: undefined and 0 are false
TruthyNum(x) == x.set /\ x.value # 0

\* the loop over the context files
RECURSIVE RecallLoop(_, _)
RecallLoop(files, w) ==
  IF files = << >> THEN w
  ELSE LET path == Head(files)
           rest == Tail(files)
       IN IF ~MatchesMemoryDate(path) THEN RecallLoop(rest, w)
          ELSE LET d == DateOf(path[Len(path)])
                   start == d.day * DayMs
                   end == start + DayMs - 1
               IN IF ~d.valid THEN RecallLoop(rest, w)
                  ELSE RecallLoop(rest,
                         [updatedAfter |->
                            IF TruthyNum(w.updatedAfter)
                            THEN Num(Min(w.updatedAfter.value, start)) ELSE Num(start),
                          updatedBefore |->
                            IF TruthyNum(w.updatedBefore)
                            THEN Num(Max(w.updatedBefore.value, end)) ELSE Num(end)])

EmptyWindow == [updatedAfter |-> Unset, updatedBefore |-> Unset]

resolveRecallWindow(contextFiles) ==
  LET w == RecallLoop(contextFiles, EmptyWindow)
      hasMemoryMd ==
        \E i \in 1..Len(contextFiles) :
          LET path == ReplaceBackslashes(contextFiles[i])
              n == Len(path)
          IN n >= 2 /\ path[n - 1] = Slash /\ LowerPiece(path[n]) = "memory.md"
  IN IF TruthyNum(w.updatedAfter) \/ TruthyNum(w.updatedBefore) THEN w
     ELSE IF hasMemoryMd
          THEN [updatedAfter |-> Num(RecallNow - RecallDays * DayMs),
                updatedBefore |-> Unset]
          ELSE EmptyWindow

\* one call of resolveRecallWindow, with any of the lists
RecallWindowCall ==
  /\ helperCall = NoHelperCall
  /\ \E contextFiles \in ContextFileLists :
       helperCall' = [fn |-> "resolveRecallWindow", arg |-> contextFiles,
                      result |-> resolveRecallWindow(contextFiles)]
  /\ UNCHANGED <<toolVars, managerVars, runner>>

NextRecall == RecallWindowCall

SpecRecall == InitHelpers /\ [][NextRecall]_vars

\* the days the date-scoped memory files of a list contribute
ContributedDays(files) ==
  { DateOf(files[i][Len(files[i])]).day :
      i \in { j \in 1..Len(files) :
                /\ MatchesMemoryDate(files[j])
                /\ DateOf(files[j][Len(files[j])]).valid } }

\* the list holds a MEMORY.md, under whatever path
HasMemoryFile(files) ==
  \E i \in 1..Len(files) : LowerPiece(files[i][Len(files[i])]) = "memory.md"

\* C29: the window of a list with date-scoped memory files is the enclosing
\* union of their UTC days: updated_after is the least start and
\* updated_before the greatest end, so updated_after <= updated_before
C29_WindowIsUnion ==
  (helperCall.fn = "resolveRecallWindow" /\ ContributedDays(helperCall.arg) # {})
    => LET days == ContributedDays(helperCall.arg)
           first == CHOOSE d \in days : \A e \in days : d <= e
           last == CHOOSE d \in days : \A e \in days : d >= e
           w == helperCall.result
       IN /\ w.updatedAfter = Num(first * DayMs)
          /\ w.updatedBefore = Num(last * DayMs + DayMs - 1)
          /\ w.updatedAfter.value <= w.updatedBefore.value

\* C30: a list with no date-scoped memory file gets updated_after = now - 30
\* days and no upper bound when it holds a MEMORY.md, in whatever path
\* form, and the empty window when it holds none
C30_DefaultWindow ==
  (helperCall.fn = "resolveRecallWindow" /\ ContributedDays(helperCall.arg) = {})
    => helperCall.result =
         IF HasMemoryFile(helperCall.arg)
         THEN [updatedAfter |-> Num(RecallNow - RecallDays * DayMs),
               updatedBefore |-> Unset]
         ELSE EmptyWindow

\* ---------------------------------------------------------------------
\* embedChunks on its own: cache lookup, deduplication by hash, fan-out
\* ---------------------------------------------------------------------

ChunkHashes == {"h1", "h2", "h3"}
MaxBatch == 3

\* a chunk of a batch: its text stands in a fixed relation to its hash
BatchChunk(h) == [hash |-> h, text |-> <<"text", h>>]
ChunkBatches == UNION {[1..n -> {BatchChunk(h) : h \in ChunkHashes}] : n \in 0..MaxBatch}

\* the vector the provider computes for a text
EmbeddingOf(text) == <<"vector", text[2]>>
NoVector == <<"(undefined)">>

\* provider.embedBatch(texts): one vector per text in text order, a reply
\* that lacks the last vector, or one whose last vector is empty
embedBatch(texts, outcome) ==
  LET n == Len(texts)
      all == [i \in 1..n |-> EmbeddingOf(texts[i])]
  IN IF n = 0 THEN << >>
     ELSE IF outcome = "short" THEN SubSeq(all, 1, n - 1)
     ELSE IF outcome = "empty" THEN [all EXCEPT ![n] = << >>]
     ELSE all

\* the entries of missing, the first of each hash only (uniqueByHash)
RECURSIVE uniqueEntries_PerChunk(_, _)
uniqueEntries_PerChunk(missing, seen) ==
  IF missing = << >> THEN << >>
  ELSE <<Head(missing)>> \o uniqueEntries_PerChunk(Tail(missing), seen)

RECURSIVE uniqueEntries(_, _)
uniqueEntries(missing, seen) ==
  IF missing = << >> THEN << >>
  ELSE IF Head(missing).hash \in seen THEN uniqueEntries(Tail(missing), seen)
       ELSE <<Head(missing)>>
              \o uniqueEntries(Tail(missing), seen \cup {Head(missing).hash})

\* embedChunks(chunks) with the rows `cached` of the cache under the current
\* provider, model and fingerprint: the texts asked of the provider, the
\* hashes upserted into the cache, and the list returned or the throw
embedChunks(chunks, cacheEnabled, cached, outcome) ==
  LET n == Len(chunks)
      texts == [i \in 1..n |-> chunks[i].text]
      cachedMap == [h \in cached |-> EmbeddingOf(<<"text", h>>)]
      missingIdx == SelectSeq([i \in 1..n |-> i], LAMBDA i : chunks[i].hash \notin cached)
      missing == [k \in 1..Len(missingIdx) |->
                    [index |-> missingIdx[k], text |-> texts[missingIdx[k]],
                     hash |-> chunks[missingIdx[k]].hash]]
      unique == uniqueEntries(missing, {})
      asked == [k \in 1..Len(unique) |-> unique[k].text]
      embeddings == embedBatch(asked, outcome)
      got == { k \in 1..Len(unique) : k <= Len(embeddings) }
      fresh(h) == IF \E k \in got : unique[k].hash = h
                  THEN embeddings[CHOOSE k \in got : unique[k].hash = h]
                  ELSE NoVector
      results == [i \in 1..n |->
                    IF chunks[i].hash \in cached THEN cachedMap[chunks[i].hash]
                    ELSE fresh(chunks[i].hash)]
      finalized == [i \in 1..n |-> IF results[i] = NoVector THEN << >> ELSE results[i]]
  IN IF ~cacheEnabled
     THEN [asked |-> <<texts>>,
           stored |-> {},
           threw |-> outcome = "throws",
           value |-> IF outcome = "throws" THEN << >> ELSE embedBatch(texts, outcome)]
     ELSE IF missing = << >>
     THEN [asked |-> << >>, stored |-> {}, threw |-> FALSE, value |-> finalized]
     ELSE IF outcome = "throws"
     THEN [asked |-> <<asked>>, stored |-> {}, threw |-> TRUE, value |-> << >>]
     ELSE [asked |-> <<asked>>,
           stored |-> { unique[k].hash : k \in got },
           threw |-> \E i \in 1..n : finalized[i] = << >>,
           value |-> IF \E i \in 1..n : finalized[i] = << >> THEN << >> ELSE finalized]

\* one call of embedChunks
EmbedChunksCall ==
  /\ helperCall = NoHelperCall
  /\ \E chunks \in ChunkBatches, cacheEnabled \in BOOLEAN,
        cached \in SUBSET ChunkHashes, outcome \in EmbedOutcomes :
       helperCall' = [fn |-> "embedChunks", chunks |-> chunks,
                      cacheEnabled |-> cacheEnabled, cached |-> cached,
                      outcome |-> outcome,
                      result |-> embedChunks(chunks, cacheEnabled, cached, outcome)]
  /\ UNCHANGED <<toolVars, managerVars, runner>>

NextEmbed == EmbedChunksCall

SpecEmbed == InitHelpers /\ [][NextEmbed]_vars

\* every text the provider was asked to embed, over all calls of embedBatch
RECURSIVE Flatten(_)
Flatten(qs) == IF qs = << >> THEN << >> ELSE Head(qs) \o Flatten(Tail(qs))

TgU2 == <<"tg", ":", "u2">>
MaxSessions == 2

\* the entries of the session store snapshot that matter here: the user id
\* the entry resolves to and its origin.label as stored
SnapshotEntries ==
  [userId : {NoStr, TgU1, TgU2},
   label : {NoStr, <<"W", "e">>, <<Space, "w", "e">>}]

\* the snapshot: one entry per session file
Snapshots == UNION {[1..n -> SnapshotEntries] : n \in 0..MaxSessions}

\* buildSessionIdentityMap: the identity of each session file
buildSessionIdentityMap(store) ==
  [i \in 1..Len(store) |->
     [userId |-> store[i].userId,
      originLabel |-> TrimOrNone(store[i].label),
      channel |-> <<"tg">>]]

ActorRow(id, type, name) == [actor_id |-> id, actor_type |-> type, display_name |-> name]

AliasRow(alias, norm, id, source) ==
  [alias |-> alias, alias_norm |-> norm, actor_id |-> id, source |-> source,
   confidence |-> 1]

\* the actor directory before the call
ActorTables ==
  { [actors |-> {}, aliases |-> {}],
    [actors |-> {ActorRow(TgU1, "human", <<"o", "l", "d">>)}, aliases |-> {}] }

\* INSERT ... VALUES rows ON CONFLICT (key) DO UPDATE: PostgreSQL refuses a
\* command that proposes two rows with the same key
\* ("ON CONFLICT DO UPDATE command cannot affect row a second time")
ProposedTwice(keys) ==
  \E i, j \in 1..Len(keys) : i < j /\ keys[i] = keys[j]

\* upsertActorDirectory(identityMap) on the tables `before`
upsertActorDirectory(identities, before) ==
  LET withUser == SelectSeq(identities, LAMBDA id : id.userId # NoStr)
      actors == [k \in 1..Len(withUser) |->
                   ActorRow(withUser[k].userId, "human", withUser[k].originLabel)]
      labelled == SelectSeq(withUser, LAMBDA id : Truthy(id.originLabel))
      aliases == [k \in 1..Len(labelled) |->
                    AliasRow(labelled[k].originLabel,
                             ToLowerCase(Trim(labelled[k].originLabel)),
                             labelled[k].userId, labelled[k].channel)]
      aliasRows == SelectSeq(aliases, LAMBDA a : a.alias_norm # EmptyStr)
      coalesce(a) ==
        IF a.display_name # NoStr THEN a
        ELSE IF \E o \in before.actors : o.actor_id = a.actor_id
        THEN [a EXCEPT !.display_name =
                (CHOOSE o \in before.actors : o.actor_id = a.actor_id).display_name]
        ELSE a
      actorsAfter ==
        { o \in before.actors : \A k \in 1..Len(actors) : actors[k].actor_id # o.actor_id }
          \cup { coalesce(actors[k]) : k \in 1..Len(actors) }
      aliasesAfter ==
        { o \in before.aliases :
            \A k \in 1..Len(aliasRows) :
              <<aliasRows[k].alias_norm, aliasRows[k].actor_id>> # <<o.alias_norm, o.actor_id>> }
          \cup { aliasRows[k] : k \in 1..Len(aliasRows) }
  IN IF Len(identities) = 0 \/ Len(actors) = 0
     THEN [threw |-> FALSE, tables |-> before]
     ELSE IF ProposedTwice([k \in 1..Len(actors) |-> actors[k].actor_id])
     THEN [threw |-> TRUE, tables |-> before]
     ELSE IF Len(aliases) = 0 \/ Len(aliasRows) = 0
     THEN [threw |-> FALSE, tables |-> [before EXCEPT !.actors = actorsAfter]]
     ELSE IF ProposedTwice([k \in 1..Len(aliasRows) |->
                              <<aliasRows[k].alias_norm, aliasRows[k].actor_id>>])
     THEN [threw |-> TRUE, tables |-> [before EXCEPT !.actors = actorsAfter]]
     ELSE [threw |-> FALSE, tables |-> [actors |-> actorsAfter, aliases |-> aliasesAfter]]

\* the end of syncSessionFiles for one snapshot of the session store
UpsertActorDirectoryCall ==
  /\ helperCall = NoHelperCall
  /\ \E store \in Snapshots, before \in ActorTables :
       helperCall' = [fn |-> "upsertActorDirectory", store |-> store,
                      before |-> before,
                      result |-> upsertActorDirectory(buildSessionIdentityMap(store),
                                                      before)]
  /\ UNCHANGED <<toolVars, managerVars, runner>>

NextActors == UpsertActorDirectoryCall

SpecActors == InitHelpers /\ [][NextActors]_vars

\* C32: after the session sync every session of the snapshot with a user id
\* has a human actor row under that id and, if it has an origin label, an
\* alias row with alias_norm = lower(trim(label)) and confidence 1
C32_ActorsUpserted ==
  helperCall.fn = "upsertActorDirectory"
    => \A i \in 1..Len(helperCall.store) :
         LET e == helperCall.store[i]
             t == helperCall.result.tables
         IN e.userId # NoStr
              => /\ \E a \in t.actors : a.actor_id = e.userId /\ a.actor_type = "human"
                 /\ TrimOrNone(e.label) # NoStr
                      => \E a \in t.aliases :
                           /\ a.actor_id = e.userId
                           /\ a.alias_norm = ToLowerCase(Trim(e.label))
                           /\ a.confidence = 1

\* ---------------------------------------------------------------------
\* further claims on search() and sync()
\* ---------------------------------------------------------------------

\* C33: a search in session scope, given or by default, whose session key
\* is absent or blank returns no row: neither a memory-file row nor a row
\* of any session
C33_SessionScopeNeedsKey ==
  (searchCall.pending
     /\ CallFilters.sessionScope = "session"
     /\ CallFilters.sessionKey = NoStr)
    => ResultRows = {}

\* the sync triggers a manager may be configured with
TriggerSettings ==
  { [BaseSettings EXCEPT !.onSearch = a, !.onSessionStart = b] : a, b \in BOOLEAN }

\* searches and syncs of one manager under any configuration of the triggers
InitTriggers ==
  /\ WarmIdle
  /\ AgentIdle
  /\ identityMap = KnownIdentities
  /\ settings \in TriggerSettings
  /\ fs = [p \in Paths |-> IF p = "MEMORY.md" THEN <<"alpha">> ELSE AbsentFile]
  /\ changes = 0
  /\ db = EmptyDb
  /\ txn = [c \in Clients |-> NoTxn]
  /\ idle = <<2, 1>>
  /\ syncing = FALSE
  /\ active = 0
  /\ callers = [c \in Callers |-> "idle"]
  /\ dirty = ("memory" \in settings.sources)
  /\ vectorDims = NoNum
  /\ lastCounts = NoCounts
  /\ run = IdleRun
  /\ searchCall = NoSearch
  /\ searches = 0
  /\ lastOk = FALSE
  /\ ToolsIdle

NextTriggers ==
  \/ SyncCall(1)
  \/ SyncStep
  \/ \E opts \in SyncSearchOpts : Search(<<"x">>, opts, "vector")
  \/ SearchReturn

SpecTriggers == InitTriggers /\ [][NextTriggers]_vars

\* C34: a call of search() starts a run of the sync only when sync.onSearch
\* is configured and the index is dirty
C34_SearchSyncsOnlyDirty ==
  [][ (searches' = searches + 1 /\ active' = active + 1)
        => (settings.onSearch /\ dirty) ]_vars

\* C35: the in-flight slot is held exactly while a run is in flight: when
\* the run settles, by success or by failure, the slot is cleared, and a
\* sync() called with the slot clear starts a fresh run
C35_SlotClearedOnSettle ==
  /\ [](syncing <=> run.pc # "idle")
  /\ [][ (run.pc = "settled" /\ run'.pc = "idle") => ~syncing' ]_vars
  /\ [][ ((\E c \in Callers : callers[c] # "awaiting" /\ callers'[c] = "awaiting")
            /\ ~syncing)
           => (syncing' /\ run'.pc = "ensureSchema") ]_vars

\* a caller got the rejection of a failed run and a later sync() call of
\* another caller has started a run of its own
C35_Witness ==
  /\ callers[1] = "rejected"
  /\ callers[2] = "awaiting"
  /\ syncing
  /\ run.pc # "idle"

\* ---------------------------------------------------------------------
\* runEmbeddedPiAgent: auth profiles and thinking levels
\* ---------------------------------------------------------------------

MaxProfiles == 3
\* the k-th profile of the order
ProfileId(k) == <<"profile", k>>
ThinkLevels == {"off", "high"}

\* the profiles of resolveAuthProfileOrder with what the auth store and
\* getApiKeyForModel say of each: in cooldown, key resolvable
ProfileLists ==
  UNION { { [k \in 1..n |-> [id |-> ProfileId(k), cooldown |-> c[k], keyOk |-> o[k]]] :
              c \in [1..n -> BOOLEAN], o \in [1..n -> BOOLEAN] } :
          n \in 1..MaxProfiles }

\* lockedProfileId and profileCandidates: the locked profile alone, the
\* profile order, or [undefined] when no profile is configured
AuthConfigs ==
  { [locked |-> TRUE, candidates |-> q, initialThinkLevel |-> "off"] :
      q \in { l \in ProfileLists : Len(l) = 1 } }
    \cup { [locked |-> FALSE, candidates |-> q, initialThinkLevel |-> "off"] :
             q \in ProfileLists }
    \cup { [locked |-> FALSE,
            candidates |-> << [id |-> NoProfileId, cooldown |-> FALSE, keyOk |-> o] >>,
            initialThinkLevel |-> "off"] : o \in BOOLEAN }

\* candidate && isProfileInCooldown(authStore, candidate)
InCooldown(c) == c.id # NoProfileId /\ c.cooldown

\* advanceAuthProfile from nextIndex on: the index it applies, 0 for false
RECURSIVE AdvanceFrom_AnyProfile(_, _)
AdvanceFrom_AnyProfile(candidates, nextIndex) ==
  IF nextIndex > Len(candidates) THEN 0
  ELSE IF candidates[nextIndex].keyOk THEN nextIndex
  ELSE AdvanceFrom_AnyProfile(candidates, nextIndex + 1)

RECURSIVE AdvanceFrom(_, _)
AdvanceFrom(candidates, nextIndex) ==
  IF nextIndex > Len(candidates) THEN 0
  ELSE IF InCooldown(candidates[nextIndex]) THEN AdvanceFrom(candidates, nextIndex + 1)
  ELSE IF candidates[nextIndex].keyOk THEN nextIndex
  ELSE AdvanceFrom(candidates, nextIndex + 1)

advanceAuthProfile(r) ==
  IF r.auth.locked THEN 0 ELSE AdvanceFrom(r.auth.candidates, r.profileIndex + 1)

\* the first candidate the initial loop does not skip, 0 when it skips all
RECURSIVE FirstCandidate(_, _, _)
FirstCandidate(candidates, locked, k) ==
  IF k > Len(candidates) THEN 0
  ELSE IF ~locked /\ InCooldown(candidates[k]) THEN FirstCandidate(candidates, locked, k + 1)
  ELSE k

\* the profile applied before the first attempt, 0 when the run throws
InitialProfile(auth) ==
  LET k == FirstCandidate(auth.candidates, auth.locked, 1)
  IN IF k = 0 THEN 0
     ELSE IF auth.candidates[k].keyOk THEN k
     ELSE IF auth.locked \/ auth.candidates[k].id = NoProfileId THEN 0
     ELSE AdvanceFrom(auth.candidates, k + 1)

Applied(auth, k) ==
  [index |-> k, id |-> auth.candidates[k].id, cooldown |-> auth.candidates[k].cooldown]

\* runEmbeddedPiAgent up to its loop: the candidates and the first profile
SelectProfile(config, auth) ==
  /\ runner.pc = "idle"
  /\ LET k == InitialProfile(auth)
         r == [IdleRunner EXCEPT !.config = config, !.auth = auth,
                                 !.thinkLevel = auth.initialThinkLevel]
     IN runner' = IF k = 0
                  THEN [r EXCEPT !.pc = "done",
                                 !.result = Throws(IF config.fallbackConfigured
                                                   THEN "FailoverError" ELSE "Error")]
                  ELSE [r EXCEPT !.pc = "attempt", !.profileIndex = k,
                                 !.lastProfileId = auth.candidates[k].id,
                                 !.applied = <<Applied(auth, k)>>]
  /\ UNCHANGED <<toolVars, managerVars, helperCall>>

\* pickFallbackThinkingLevel({ message, attempted }): the level the error
\* message asks for unless it was attempted
pickFallbackThinkingLevel(level, attempted) ==
  IF level # None /\ level \notin attempted THEN level ELSE None

\* what an attempt of the loop reports: level is the thinking level an
\* error message names as supported
LoopInputs ==
  { a \in [aborted : BOOLEAN, timedOut : BOOLEAN,
           promptError : {"none", "context_overflow", "failover", "other"},
           assistantFailure : BOOLEAN, level : ThinkLevels \cup {None},
           compacted : BOOLEAN] :
      /\ a.timedOut => a.promptError = "none"
      /\ a.assistantFailure => a.promptError = "none"
      /\ a.level # None => a.promptError \in {"none", "other"}
      /\ a.compacted => a.promptError = "context_overflow" }

\* above every number of iterations a run is expected to make
MaxIterations == MaxProfiles * Cardinality(ThinkLevels) + 1

\* one iteration of the while (true) loop with its profile bookkeeping
LoopIteration(in) ==
  /\ runner.pc = "attempt"
  /\ runner.auth # NoAuth
  /\ runner.attempts < MaxIterations
  /\ LET attempted == runner.attemptedThinking \cup {runner.thinkLevel}
         pick == pickFallbackThinkingLevel(in.level, attempted)
         adv == advanceAuthProfile(runner)
         a == [aborted |-> in.aborted, timedOut |-> in.timedOut,
               promptError |-> in.promptError,
               assistantFailure |-> in.assistantFailure,
               fallbackThinking |-> pick # None, rotated |-> adv # 0,
               preOver |-> FALSE, post |-> NoNum, compacted |-> in.compacted]
         promptBranch == a.promptError # "none" /\ ~a.aborted
         shouldRotate == (~a.aborted /\ a.assistantFailure) \/ a.timedOut
         advanceCalled == IF promptBranch THEN a.promptError = "failover"
                          ELSE ~(a.fallbackThinking /\ ~a.aborted) /\ shouldRotate
         hasProfile == runner.lastProfileId # NoProfileId
     IN \E out \in AfterAttempt(runner, a) :
          LET continues == out.end = Continue
              byRotation == continues /\ advanceCalled /\ adv # 0
              byOverflow == continues /\ promptBranch
                              /\ isContextOverflowError(a.promptError)
              byThinking == continues /\ ~byRotation /\ ~byOverflow
              failure == hasProfile /\ advanceCalled
              good == hasProfile /\ out.end.status = "payload" /\ out.end.kind = "ok"
          IN runner' = [runner EXCEPT
               !.attempts = @ + 1,
               !.last = a,
               !.ran = out.ran,
               !.pc = IF continues THEN "attempt" ELSE "done",
               !.result = out.end,
               !.attemptedThinking = IF byRotation THEN {} ELSE attempted,
               !.thinkLevel = IF byRotation THEN runner.auth.initialThinkLevel
                              ELSE IF byThinking THEN pick ELSE @,
               !.profileIndex = IF byRotation THEN adv ELSE @,
               !.lastProfileId = IF byRotation THEN runner.auth.candidates[adv].id ELSE @,
               !.applied = IF byRotation THEN Append(@, Applied(runner.auth, adv)) ELSE @,
               !.marked = (IF failure THEN {"failure"} ELSE {})
                            \cup (IF good THEN {"good"} ELSE {}),
               !.retries = [overflow |-> @.overflow + (IF byOverflow THEN 1 ELSE 0),
                            thinking |-> @.thinking + (IF byThinking THEN 1 ELSE 0),
                            rotation |-> @.rotation + (IF byRotation THEN 1 ELSE 0)]]
  /\ UNCHANGED <<toolVars, managerVars, helperCall>>

NextProfiles ==
  \/ \E fallbackConfigured \in BOOLEAN, auth \in AuthConfigs :
       SelectProfile([historyLimit |-> [kind |-> "unset"],
                      fallbackConfigured |-> fallbackConfigured], auth)
  \/ \E in \in LoopInputs : LoopIteration(in)

SpecProfiles == InitHelpers /\ [][NextProfiles]_vars

MAX_OVERFLOW_COMPACTION_ATTEMPTS == 3

C37_ProfileSelection ==
  /\ runner.auth # NoAuth
       => LET applied == runner.applied
          IN /\ runner.auth.locked
                  => /\ \A k \in 1..Len(applied) : applied[k].id = runner.auth.candidates[1].id
                     /\ Len(applied) <= 1
                     /\ runner.retries.rotation = 0
             /\ ~runner.auth.locked
                  => \A k \in 1..Len(applied) :
                       applied[k].id # NoProfileId => ~applied[k].cooldown
             /\ \A k, l \in 1..Len(applied) : k < l => applied[k].index < applied[l].index
             /\ Len(applied) > 0 =>
                  /\ runner.profileIndex = applied[Len(applied)].index
                  /\ runner.lastProfileId = applied[Len(applied)].id

\* a run that skipped the first candidate, in cooldown, applied the second
\* and rotated to the third
C37_Witness ==
  /\ runner.auth # NoAuth
  /\ ~runner.auth.locked
  /\ Len(runner.auth.candidates) = 3
  /\ runner.auth.candidates[1].cooldown
  /\ Len(runner.applied) = 2
  /\ runner.applied[1].index = 2
  /\ runner.applied[2].index = 3

\* C38: a profile is marked good only at the end of a run whose last
\* attempt neither timed out nor ended in a failover-class assistant error,
\* and never in the iteration that marked it failed
C38_GoodOnlyAfterSuccess ==
  "good" \in runner.marked
    => /\ runner.pc = "done"
       /\ "failure" \notin runner.marked
       /\ ~runner.last.timedOut
       /\ runner.last.aborted \/ ~runner.last.assistantFailure


\* ---------------------------------------------------------------------
\* runEmbeddedAttempt: the session write lock, the active-run registration
\* and the timers of one attempt
\* ---------------------------------------------------------------------

\* attempts made one after the other on the same session file
MaxRuns == 2

\* params.abortSignal: absent, not yet aborted, aborted by the caller, or
\* aborted with a TimeoutError as its reason
AbortSignals == {"none", "live", "aborted", "abortedTimeout"}

Awaits == {"hooks", "prompt", "compaction"}

\* abortRun(isTimeout): aborted = true, and timedOut = true for a timeout
abortRun(a, isTimeout) ==
  [a EXCEPT !.aborted = TRUE, !.timedOut = @ \/ isTimeout]

\* the name of the way an attempt ended, from what it returns or throws
ExitPath(a) ==
  IF a.threw # "null" THEN a.threw
  ELSE IF a.timedOut THEN "timeout"
  ELSE IF a.aborted THEN "abort"
  ELSE IF a.promptError # "null" THEN "promptError"
  ELSE "return"

\* the inner finally: the three timers, the subscription, the registration
\* and the abort listener
InnerFinally(a) ==
  [a EXCEPT !.abortTimer = "cleared",
            !.abortWarnTimer = IF @ = "unset" THEN @ ELSE "cleared",
            !.watchdogInterval = IF @ = "unset" THEN @ ELSE "cleared",
            !.registered = FALSE,
            !.listening = FALSE]

\* an outer finally that tears the session down and keeps the lock
OuterFinally_KeepsLock(a) ==
  [a EXCEPT !.disposed = IF a.session THEN @ + 1 ELSE @,
            !.session = FALSE,
            !.pc = "exited",
            !.exits = @ \cup {ExitPath(a)}]

\* the outer finally: flushPendingToolResults, session?.dispose(),
\* await sessionLock.release()
OuterFinally(a) ==
  [a EXCEPT !.disposed = IF a.session THEN @ + 1 ELSE @,
            !.session = FALSE,
            !.lock = FALSE,
            !.pc = "exited",
            !.exits = @ \cup {ExitPath(a)}]

InAttempt == helperCall.fn = "runEmbeddedAttempt"

\* await acquireSessionWriteLock({ sessionFile }): granted when no attempt
\* holds the lock of the session file
AcquireLock ==
  /\ \/ helperCall = NoHelperCall
     \/ InAttempt /\ helperCall.pc = "exited" /\ ~helperCall.lock
                  /\ helperCall.run < MaxRuns
  /\ \E signal \in AbortSignals, hangs \in BOOLEAN :
       helperCall' =
         [fn |-> "runEmbeddedAttempt",
          run |-> IF InAttempt THEN helperCall.run + 1 ELSE 1,
          exits |-> IF InAttempt THEN helperCall.exits ELSE {},
          pc |-> "open", lock |-> TRUE, signal |-> signal, hangs |-> hangs,
          session |-> FALSE, disposed |-> 0, registered |-> FALSE,
          listening |-> FALSE, abortTimer |-> "unset",
          abortWarnTimer |-> "unset", watchdogInterval |-> "unset",
          aborted |-> signal \in {"aborted", "abortedTimeout"},
          timedOut |-> FALSE, promptError |-> "null", threw |-> "null"]
  /\ UNCHANGED <<toolVars, managerVars, runner>>

\* repairSessionFileIfNeeded .. createAgentSession: the session is created,
\* or one of the awaited calls throws
OpenSession ==
  /\ InAttempt /\ helperCall.pc = "open"
  /\ \E ok \in BOOLEAN :
       helperCall' =
         IF ok THEN [helperCall EXCEPT !.session = TRUE, !.pc = "sanitize"]
         ELSE [helperCall EXCEPT !.threw = "setupError", !.pc = "outerFinally"]
  /\ UNCHANGED <<toolVars, managerVars, runner>>

\* sanitizeSessionHistory .. limitHistoryTurns; on an error the session is
\* disposed and the error rethrown; otherwise the run is registered, the abort
\* timer armed and the caller's abort signal looked at
SanitizeHistory ==
  /\ InAttempt /\ helperCall.pc = "sanitize"
  /\ \E ok \in BOOLEAN :
       helperCall' =
         IF ~ok
           THEN [helperCall EXCEPT !.disposed = @ + 1,
                                   !.threw = "sanitizeError",
                                   !.pc = "outerFinally"]
           ELSE LET reg == [helperCall EXCEPT !.registered = TRUE,
                                              !.abortTimer = "armed",
                                              !.pc = "hooks"]
                IN  CASE helperCall.signal = "none" -> reg
                      [] helperCall.signal = "live" ->
                           [reg EXCEPT !.listening = TRUE]
                      [] helperCall.signal = "aborted" -> abortRun(reg, FALSE)
                      [] OTHER -> abortRun(reg, TRUE)
  /\ UNCHANGED <<toolVars, managerVars, runner>>

\* the abort timer's callback: abortRun(true), and the warn timer is armed
AbortTimerFires ==
  /\ InAttempt /\ helperCall.abortTimer = "armed"
  /\ helperCall' =
       [abortRun(helperCall, TRUE) EXCEPT
          !.abortTimer = "fired",
          !.abortWarnTimer = IF @ = "unset" THEN "armed" ELSE @]
  /\ UNCHANGED <<toolVars, managerVars, runner>>

\* the warn timer's callback only logs
AbortWarnTimerFires ==
  /\ InAttempt /\ helperCall.abortWarnTimer = "armed"
  /\ helperCall' = [helperCall EXCEPT !.abortWarnTimer = "fired"]
  /\ UNCHANGED <<toolVars, managerVars, runner>>

\* the watchdog's callback: abortRun(true, ..) when the stream is not active,
\* no event came for 60 s and the run is not aborted yet
WatchdogFires ==
  /\ InAttempt /\ helperCall.watchdogInterval = "armed"
  /\ \E hung \in BOOLEAN :
       helperCall' =
         IF hung /\ ~helperCall.aborted THEN abortRun(helperCall, TRUE)
         ELSE helperCall
  /\ UNCHANGED <<toolVars, managerVars, runner>>

\* onAbort, the listener of params.abortSignal (once)
onAbort ==
  /\ InAttempt /\ helperCall.listening
  /\ \E timeout \in BOOLEAN :
       helperCall' =
         [abortRun(helperCall, timeout) EXCEPT
            !.listening = FALSE,
            !.signal = IF timeout THEN "abortedTimeout" ELSE "aborted"]
  /\ UNCHANGED <<toolVars, managerVars, runner>>

\* the before_agent_start hooks have run (their errors are caught); the
\* watchdog is started and the prompt sent
BeforeAgentStart ==
  /\ InAttempt /\ helperCall.pc = "hooks"
  /\ helperCall' = [helperCall EXCEPT !.watchdogInterval = "armed",
                                      !.pc = "prompt"]
  /\ UNCHANGED <<toolVars, managerVars, runner>>

\* await abortable(activeSession.prompt(..)): rejected with an AbortError once
\* the run is aborted; otherwise the prompt resolves or rejects, unless the
\* stream hangs
PromptSettles ==
  /\ InAttempt /\ helperCall.pc = "prompt"
  /\ \/ /\ helperCall.aborted
        /\ helperCall' = [helperCall EXCEPT !.promptError = "AbortError",
                                            !.pc = "compaction"]
     \/ /\ ~helperCall.aborted /\ ~helperCall.hangs
        /\ \E err \in {"null", "Error"} :
             helperCall' = [helperCall EXCEPT !.promptError = err,
                                              !.pc = "compaction"]
  /\ UNCHANGED <<toolVars, managerVars, runner>>

\* await waitForCompactionRetry(): an AbortError becomes the prompt error if
\* there is none, any other error is rethrown; then the inner finally runs
CompactionSettles ==
  /\ InAttempt /\ helperCall.pc = "compaction"
  /\ \E out \in {"ok", "AbortError", "Error"} :
       LET a == CASE out = "ok" -> helperCall
                  [] out = "AbortError" ->
                       [helperCall EXCEPT
                          !.promptError = IF @ = "null" THEN "AbortError" ELSE @]
                  [] OTHER -> [helperCall EXCEPT !.threw = "compactionError"]
       IN  helperCall' = [InnerFinally(a) EXCEPT !.pc = "outerFinally"]
  /\ UNCHANGED <<toolVars, managerVars, runner>>

\* the attempt leaves through the outer finally
SessionTeardown ==
  /\ InAttempt /\ helperCall.pc = "outerFinally"
  /\ helperCall' = OuterFinally(helperCall)
  /\ UNCHANGED <<toolVars, managerVars, runner>>

NextAttempt ==
  \/ AcquireLock
  \/ OpenSession
  \/ SanitizeHistory
  \/ AbortTimerFires
  \/ AbortWarnTimerFires
  \/ WatchdogFires
  \/ onAbort
  \/ BeforeAgentStart
  \/ PromptSettles
  \/ CompactionSettles
  \/ SessionTeardown

\* the event loop runs every timer that stays armed and resumes every
\* awaited call that has settled
FairAttempt ==
  /\ WF_vars(OpenSession)
  /\ WF_vars(SanitizeHistory)
  /\ WF_vars(AbortTimerFires)
  /\ WF_vars(BeforeAgentStart)
  /\ WF_vars(PromptSettles)
  /\ WF_vars(CompactionSettles)
  /\ WF_vars(SessionTeardown)

SpecAttempt == InitHelpers /\ [][NextAttempt]_vars /\ FairAttempt

AttemptLeft ==
  /\ ~helperCall.lock
  /\ ~helperCall.registered
  /\ helperCall.abortTimer # "armed"
  /\ helperCall.abortWarnTimer # "armed"
  /\ helperCall.watchdogInterval # "armed"

\* C39: once runEmbeddedAttempt holds the session write lock, every attempt
\* comes to its exit, and there the lock is released, the run is no longer
\* registered as active and none of the abort, warn and watchdog timers is
\* armed; so the next attempt on the session file acquires the lock
C39_LockReleasedOnExit ==
  /\ [](InAttempt /\ helperCall.pc = "exited" => AttemptLeft)
  /\ (InAttempt /\ helperCall.lock) ~> (InAttempt /\ helperCall.pc = "exited")
  /\ [](InAttempt /\ helperCall.pc = "exited" /\ helperCall.run < MaxRuns
          => ENABLED AcquireLock)

C39_Witness ==
  /\ InAttempt
  /\ helperCall.run = 2
  /\ helperCall.lock
  /\ helperCall.exits \in {{"timeout"}, {"sanitizeError"}}


\* ---------------------------------------------------------------------
\* scripts/docker-startup.sh: the script that is sourced before the gateway
\* starts (set -euo pipefail)
\* ---------------------------------------------------------------------

\* for _ in 1 2 3 4 5
IndexTries == 5

\* agents a status listing tells of
MaxAgents == 2

\* the environment: OPENCLAW_MEMORY_PG_URL is unset, holds the literal
\* $OPENCLAW_PG_PASSWORD, or is a complete URL; the script is executed as a
\* command, or sourced as the left side of `source script && node gateway`
StartupEnvs ==
  [OPENCLAW_MEMORY_PG_URL : {"unset", "placeholder", "url"},
   OPENCLAW_PG_PASSWORD : BOOLEAN,
   OPENCLAW_STARTUP_INDEX : {"unset", "0", "1"},
   invocation : {"executed", "sourced"}]

\* what `memory status --json` leaves in STATUS_JSON: nothing or a text that
\* is no JSON (the command failed, || true), a JSON value that is no array,
\* or an array with a chunk count for each agent
StatusOutputs ==
  {[kind |-> "text"], [kind |-> "object"]}
    \cup {[kind |-> "array", chunks |-> c] :
            c \in UNION {[1..n -> {0, 2}] : n \in 0..MaxAgents}}

RECURSIVE SumChunks(_)
SumChunks(c) == IF c = << >> THEN 0 ELSE Head(c) + SumChunks(Tail(c))

\* the exit status of the node -e program that reads STATUS_JSON
NeedIndexExit(json) ==
  IF json.kind # "array" THEN 0
  ELSE IF Len(json.chunks) = 0 THEN 0
  ELSE IF SumChunks(json.chunks) > 0 THEN 1 ELSE 0

\* set -e is in effect, except in a script sourced on the left side of &&,
\* where bash ignores it for every command of the script
ErrExit(env) == env.invocation = "executed"

ReportsChunks(json) ==
  json.kind = "array" /\ \E i \in 1..Len(json.chunks) : json.chunks[i] > 0

InScript == helperCall.fn = "docker-startup.sh"

\* lines 1-76: the options are set, the Postgres URL is built when needed
\* (${OPENCLAW_PG_PASSWORD:?..} ends the script when the password is unset),
\* the workspace files are seeded; then OPENCLAW_STARTUP_INDEX is tested
StartScript ==
  /\ helperCall = NoHelperCall
  /\ \E env \in StartupEnvs :
       LET build == env.OPENCLAW_MEMORY_PG_URL # "url"
           s == [fn |-> "docker-startup.sh", env |-> env, pc |-> "status",
                 STATUS_JSON |-> [kind |-> "text"], NEED_INDEX |-> -1,
                 indexRuns |-> 0, reachedTrue |-> FALSE, status |-> 0]
       IN  helperCall' =
             IF build /\ ~env.OPENCLAW_PG_PASSWORD
               THEN [s EXCEPT !.pc = "exited", !.status = 127]
             ELSE IF env.OPENCLAW_STARTUP_INDEX = "0"
               THEN [s EXCEPT !.pc = "true"]
             ELSE s
  /\ UNCHANGED <<toolVars, managerVars, runner>>

\* STATUS_JSON="$(node /app/dist/index.js memory status --json 2>/dev/null || true)"
MemoryStatus ==
  /\ InScript /\ helperCall.pc = "status"
  /\ \E out \in StatusOutputs :
       helperCall' = [helperCall EXCEPT !.STATUS_JSON = out, !.pc = "check"]
  /\ UNCHANGED <<toolVars, managerVars, runner>>

\* printf '%s' "$STATUS_JSON" | node -e '...'; NEED_INDEX=$?; the test of
\* NEED_INDEX. Where set -e is in effect, a pipeline that is a command of
\* its own and ends with a status other than 0 ends the script with that
\* status, before NEED_INDEX is assigned
CheckStatus ==
  /\ InScript /\ helperCall.pc = "check"
  /\ LET code == NeedIndexExit(helperCall.STATUS_JSON)
     IN  helperCall' =
           IF code # 0 /\ ErrExit(helperCall.env)
             THEN [helperCall EXCEPT !.pc = "exited", !.status = code]
             ELSE [helperCall EXCEPT !.NEED_INDEX = code,
                                     !.pc = IF code = 0 THEN "index" ELSE "true"]
  /\ UNCHANGED <<toolVars, managerVars, runner>>

\* one pass of the for loop: `memory index` succeeds (break) or fails
\* (sleep 3, next pass)
MemoryIndex ==
  /\ InScript /\ helperCall.pc = "index"
  /\ \E ok \in BOOLEAN :
       helperCall' =
         [helperCall EXCEPT
            !.indexRuns = @ + 1,
            !.pc = IF ok \/ helperCall.indexRuns + 1 = IndexTries
                     THEN "true" ELSE "index"]
  /\ UNCHANGED <<toolVars, managerVars, runner>>

\* the last statement: true
FinalTrue ==
  /\ InScript /\ helperCall.pc = "true"
  /\ helperCall' = [helperCall EXCEPT !.pc = "exited", !.status = 0,
                                      !.reachedTrue = TRUE]
  /\ UNCHANGED <<toolVars, managerVars, runner>>

NextStartup ==
  \/ StartScript
  \/ MemoryStatus
  \/ CheckStatus
  \/ MemoryIndex
  \/ FinalTrue

SpecStartup == InitHelpers /\ [][NextStartup]_vars

PostgresSet(env) ==
  env.OPENCLAW_MEMORY_PG_URL = "url" \/ env.OPENCLAW_PG_PASSWORD

\* C40: with the Postgres variables set, the startup script never ends
\* before its last statement and ends with status 0; `memory index` is run at
\* most five times, and only when the status listing reports no chunks
C40_StartupAlwaysSucceeds ==
  (InScript /\ PostgresSet(helperCall.env))
    => /\ helperCall.pc = "exited"
            => helperCall.reachedTrue /\ helperCall.status = 0
       /\ helperCall.indexRuns <= IndexTries
       /\ helperCall.indexRuns > 0 => ~ReportsChunks(helperCall.STATUS_JSON)

====
